---- MODULE Spec2Model ----
(***************************************************************************)
(* Model of BO-Video-Tagger: the storage and search engine (bo_db.py), the *)
(* dashboard background worker (bo_worker.py) and the dashboard's progress *)
(* monitor (app.py).                                                       *)
(***************************************************************************)
EXTENDS Bags, FiniteSets, Integers, Sequences, TLC

VARIABLES
    db,             \* the connection's view of the tables (open transaction included)
    db_committed,   \* the durable tables: what a commit last wrote
    vector_cache,   \* VideoDB._vector_cache: path -> decoded vector
    has_fts,        \* VideoDB.has_fts: whether the full-text table could be created
    raised,         \* whether the last upsert_media call let an exception escape
    calls,          \* number of upsert_media calls made so far
    last_upsert,    \* path -> the arguments of the most recent upsert_media call for it
    last_fault      \* the statement that failed in the last upsert_media call

store_vars == <<db, db_committed, vector_cache, has_fts, raised, calls, last_upsert, last_fault>>

VARIABLES
    th              \* thread -> where it is in its upsert_media or search_media call

conc_vars == <<th>>

VARIABLES
    jobs,           \* the job threads ever started, in order: each one's locals
    thread,         \* VideoWorker.thread: 0 (None) or the index of the last thread
    stop_event,     \* VideoWorker.stop_event
    is_running,     \* VideoWorker.is_running
    queue,          \* VideoWorker.queue
    jsonl,          \* paths of the records in the target folder's legacy logs
    mon_pc,         \* monitor_progress: "idle" between ticks, "drain" inside its loop
    progress,       \* session_state's progress_float and progress_text
    refreshed,      \* jobs whose DONE made the monitor call st.rerun()
    banners,        \* jobs whose ERROR the monitor showed with st.error()
    start_calls,    \* number of start_processing calls so far
    stop_calls      \* number of stop calls so far

worker_vars == <<jobs, thread, stop_event, is_running, queue, jsonl, mon_pc, progress,
                 refreshed, banners, start_calls, stop_calls>>

VARIABLES
    last_search,    \* the last search_media call: its arguments and what it returned
    last_list,      \* the last listing: its arguments, the page and the count
    table,          \* a store file of an older release: its videos table, and the
                    \* table once VideoDB has opened the file
    api_db,         \* api.db is set
    api_processor,  \* api.processor is set
    fs,             \* the paths that exist on the server's filesystem
    reqs            \* the requests the API is serving, each in its own thread

read_vars == <<last_search, last_list>>

api_vars == <<api_db, api_processor, fs, reqs>>

VARIABLES
    folder,         \* the target folder of migrate_jsonl: its files and the import's position
    tagger,         \* VideoTagger.prepare(): the model files on disk and where the call is
    vlm,            \* MediaProcessor: its llm attribute and the process_file calls in flight
    gallery         \* the gallery's session state and the page it last rendered

aux_vars == <<folder, tagger, vlm, gallery>>

ext_vars == <<read_vars, table, api_vars, aux_vars>>

vars == <<store_vars, conc_vars, worker_vars, ext_vars>>

----------------------------------------------------------------------------
(* Python values *)

\* An Optional value is a sequence of length 0 (None) or 1 (the value).
None == <<>>
Some(v) == <<v>>

\* Python truthiness of an Optional[bytes]: neither None nor b"".
Truthy(opt) == opt # None /\ opt[1] # <<>>

----------------------------------------------------------------------------
(* Strings *)

RECURSIVE LastSlash(_, _)
LastSlash(s, i) ==
    IF i = 0 THEN 0
    ELSE IF SubSeq(s, i, i) = "/" THEN i ELSE LastSlash(s, i - 1)

\* os.path.basename
basename(s) == SubSeq(s, LastSlash(s, Len(s)) + 1, Len(s))

\* os.path.dirname
dirname(s) ==
    LET i == LastSlash(s, Len(s))
    IN  IF i = 0 THEN "" ELSE IF i = 1 THEN "/" ELSE SubSeq(s, 1, i - 1)

\* ",".join(tags)
RECURSIVE join_tags(_)
join_tags(tags) ==
    IF tags = <<>> THEN ""
    ELSE IF Len(tags) = 1 THEN tags[1]
    ELSE tags[1] \o "," \o join_tags(Tail(tags))

----------------------------------------------------------------------------
(* Embedding blobs: bytes, decoded four at a time as one float32 word *)

FloatWidth == 4

\* np.frombuffer(blob, dtype=np.float32) raises ValueError unless the length
\* is a multiple of the element size.
Decodable(blob) == Len(blob) % FloatWidth = 0

\* The k-th element: its FloatWidth bytes, lowest first.
Word(blob, k) == SubSeq(blob, (k - 1) * FloatWidth + 1, k * FloatWidth)

frombuffer(blob) == [k \in 1..(Len(blob) \div FloatWidth) |-> Word(blob, k)]

\* float32 1.0 and 0.0, little endian
OneF == <<0, 0, 128, 63>>
ZeroF == <<0, 0, 0, 0>>

\* What callers pass: b"", and the vector [1, 0] as float32 bytes.
Blobs == { <<>>, OneF \o ZeroF }

EmbeddingArgs == {None} \cup {Some(b) : b \in Blobs}

----------------------------------------------------------------------------
(* Records handed to upsert_media (schemas.MediaItem) *)

PathA == "/v/SciFi/a.mp4"
PathB == "/v/Action/b.mp4"
Paths == {PathA, PathB}

AI1 == [tags |-> <<"space", "nasa">>, summary |-> "A test video", description |-> "Apollo 11"]
AI2 == [tags |-> <<"food">>, summary |-> "Updated Summary", description |-> "Making pasta"]

\* A record without system info and without a duration.
MediaItem(path, parent_folder, ai, transcription) ==
    [media_type |-> "video",
     meta |-> [path |-> path, filename |-> basename(path), parent_folder |-> parent_folder,
               duration_sec |-> None],
     ai |-> ai,
     transcription |-> transcription,
     system |-> None]

\* The record with SystemInfo.timestamp and MediaMetadata.duration_sec set.
Stamped(item, timestamp, duration_sec) ==
    [item EXCEPT !.system = Some([timestamp |-> timestamp]),
                 !.meta.duration_sec = Some(duration_sec)]

Day1 == "2024-01-01T00:00:00"
Day2 == "2025-06-01T00:00:00"

\* One of the records carries a parent_folder that is not the folder of its
\* path: MediaMetadata.parent_folder is a field the caller fills in.
Items ==
    { Stamped(MediaItem(PathA, "SciFi", Some(AI1), None), Day1, 10),
      Stamped(MediaItem(PathA, "SciFi", Some(AI2), Some([full_text |-> "hello moon"])),
              Day2, 10),
      MediaItem(PathA, "SciFi", None, None),
      Stamped(MediaItem(PathB, "Action", Some(AI1), None), Day2, 20),
      Stamped(MediaItem(PathB, "Unsorted", Some(AI2), None), Day1, 20),
      MediaItem("", "", Some(AI1), None) }

----------------------------------------------------------------------------
(* The tables and the statements upsert_media runs on them *)

EmptyDB == [videos |-> <<>>, videos_search |-> EmptyBag]

HasRow(videos, path) == \E i \in 1..Len(videos) : videos[i].path = path

RowsOf(videos, path) == {i \in 1..Len(videos) : videos[i].path = path}

\* The derived fields and the parameter tuple of the INSERT.
tags_str(item) == IF item.ai # None THEN join_tags(item.ai[1].tags) ELSE ""
summary_of(item) == IF item.ai # None THEN item.ai[1].summary ELSE ""
description_of(item) == IF item.ai # None THEN item.ai[1].description ELSE ""
transcription_text(item) ==
    IF item.transcription # None THEN item.transcription[1].full_text ELSE ""

\* datetime.now().isoformat() for a record without system info: the clock of
\* the model stands at one instant, later than every timestamp of the records.
Now == "2026-01-01T00:00:00"

processed_at(item) == IF item.system # None THEN item.system[1].timestamp ELSE Now

\* The metadata column holds model_dump_json() of the record; the listing reads
\* it back with json.loads and MediaItem(**data), which gives the record again.
VideoRow(item, embedding_bytes) ==
    [path |-> item.meta.path,
     filename |-> item.meta.filename,
     duration_sec |-> item.meta.duration_sec,
     metadata |-> item,
     processed_at |-> processed_at(item),
     tags |-> tags_str(item),
     summary |-> summary_of(item),
     description |-> description_of(item),
     parent_folder |-> item.meta.parent_folder,
     media_type |-> item.media_type,
     transcription |-> transcription_text(item),
     embedding |-> embedding_bytes]

SearchRow(item) ==
    [path |-> item.meta.path,
     filename |-> item.meta.filename,
     tags |-> tags_str(item),
     summary |-> summary_of(item),
     description |-> description_of(item),
     transcription |-> transcription_text(item)]

\* The statement with ON CONFLICT(path) DO NOTHING: an existing row is kept as it is.
insert_videos_do_nothing(videos, row) ==
    IF HasRow(videos, row.path) THEN videos ELSE Append(videos, row)

\* INSERT INTO videos ... ON CONFLICT(path) DO UPDATE SET ...
insert_videos(videos, row) ==
    IF HasRow(videos, row.path)
    THEN [i \in 1..Len(videos) |->
            IF videos[i].path = row.path
            THEN [videos[i] EXCEPT !.tags = row.tags,
                                   !.metadata = row.metadata,
                                   !.processed_at = row.processed_at,
                                   !.summary = row.summary,
                                   !.description = row.description,
                                   !.parent_folder = row.parent_folder,
                                   !.transcription = row.transcription,
                                   !.embedding = row.embedding,
                                   !.media_type = row.media_type]
            ELSE videos[i]]
    ELSE Append(videos, row)

\* DELETE FROM videos_search WHERE path = ?
fts_delete(fts, path) ==
    [r \in {x \in DOMAIN fts : x.path # path} |-> fts[r]]

\* INSERT INTO videos_search ...
fts_insert(fts, row) == fts (+) SetToBag({row})

\* self._vector_cache[path] = vec
cache_put(cache, path, vec) ==
    [p \in DOMAIN cache \cup {path} |-> IF p = path THEN vec ELSE cache[p]]

\* The cache _load_vector_cache builds from the rows in table order: the
\* whole load sits in one try, so the first undecodable blob ends it.
RECURSIVE load_rows(_, _, _)
load_rows(videos, i, cache) ==
    IF i > Len(videos) THEN cache
    ELSE LET blob == videos[i].embedding
         IN  IF ~Truthy(blob) THEN load_rows(videos, i + 1, cache)
             ELSE IF ~Decodable(blob[1]) THEN cache
             ELSE load_rows(videos, i + 1,
                            cache_put(cache, videos[i].path, frombuffer(blob[1])))

EmptyCache == [p \in {} |-> <<>>]

_load_vector_cache(videos) == load_rows(videos, 1, EmptyCache)

\* The statements of upsert_media, in order; "none" is a call in which none fails.
Statements == <<"insert_videos", "fts_delete", "fts_insert", "commit">>
Faults == {"none"} \cup {Statements[i] : i \in 1..Len(Statements)}

\* Whether the call reaches and fails the statement: the two shadow-table
\* statements run only when has_fts.
Fails(fault, fts) ==
    fault # "none" /\ (fts \/ fault \in {"insert_videos", "commit"})

\* except Exception: every sqlite3 error and numpy's ValueError are Exceptions.
Caught(exc) == exc \in {"sqlite3.Error", "ValueError"}

\* A handler that logs the error and leaves the open transaction as it is.
rollback_missing(d, dc) == d

\* self.conn.rollback(): the connection's view falls back to the durable tables.
rollback(d, dc) == dc

\* The connection's view when the statement named by fault raises: what the
\* statements before it wrote.
ViewAtFault(d, item, embedding_bytes, fault) ==
    LET d1 == [d EXCEPT !.videos = insert_videos(@, VideoRow(item, embedding_bytes))]
        d2 == [d1 EXCEPT !.videos_search = fts_delete(@, item.meta.path)]
        d3 == [d2 EXCEPT !.videos_search = fts_insert(@, SearchRow(item))]
    IN  CASE fault = "insert_videos" -> d
          [] fault = "fts_delete" -> d1
          [] fault = "fts_insert" -> d2
          [] OTHER -> IF fault = "commit" /\ d3.videos_search # d1.videos_search
                      THEN d3 ELSE d1

\* upsert_media: the store after the call, as [db, db_committed, vector_cache, raised].
upsert_media(d, dc, cache, fts, item, embedding_bytes, fault) ==
    LET path == item.meta.path
        d1 == [d EXCEPT !.videos = insert_videos(@, VideoRow(item, embedding_bytes))]
        d2 == IF fts
              THEN [d1 EXCEPT !.videos_search =
                                  fts_insert(fts_delete(@, path), SearchRow(item))]
              ELSE d1
    IN  IF path = ""
        THEN [db |-> d, db_committed |-> dc, vector_cache |-> cache, raised |-> FALSE]
        ELSE IF Fails(fault, fts)
        THEN \* the failed statement raises; the handler rolls back
             [db |-> rollback(IF fts THEN ViewAtFault(d, item, embedding_bytes, fault)
                              ELSE IF fault = "commit" THEN d1 ELSE d, dc),
              db_committed |-> dc, vector_cache |-> cache,
              raised |-> ~Caught("sqlite3.Error")]
        ELSE IF Truthy(embedding_bytes) /\ ~Decodable(embedding_bytes[1])
        THEN \* committed; np.frombuffer raises; the rollback finds nothing open
             [db |-> rollback(d2, d2), db_committed |-> d2, vector_cache |-> cache,
              raised |-> ~Caught("ValueError")]
        ELSE [db |-> d2, db_committed |-> d2,
              vector_cache |-> IF Truthy(embedding_bytes)
                               THEN cache_put(cache, path, frombuffer(embedding_bytes[1]))
                               ELSE cache,
              raised |-> FALSE]

----------------------------------------------------------------------------
(* search_media: keyword stage, semantic stage, merge *)

LowerCase == "abcdefghijklmnopqrstuvwxyz"
UpperCase == "ABCDEFGHIJKLMNOPQRSTUVWXYZ"
Digits == "0123456789"

Chars(s) == {SubSeq(s, i, i) : i \in 1..Len(s)}

\* The shadow table's tokenizer folds case and splits at every other character.
TokenChars == Chars(LowerCase) \cup Chars(UpperCase) \cup Chars(Digits)
UpperChars == Chars(UpperCase)

IsTokenChar(c) == c \in TokenChars

Fold(c) ==
    IF c \in UpperChars
    THEN LET i == CHOOSE k \in 1..Len(UpperCase) : SubSeq(UpperCase, k, k) = c
         IN  SubSeq(LowerCase, i, i)
    ELSE c

RECURSIVE Tokens(_, _, _, _)
Tokens(s, i, cur, acc) ==
    LET done == IF cur = "" THEN acc ELSE acc \cup {cur}
    IN  IF i > Len(s) THEN done
        ELSE IF IsTokenChar(SubSeq(s, i, i))
        THEN Tokens(s, i + 1, cur \o Fold(SubSeq(s, i, i)), acc)
        ELSE Tokens(s, i + 1, "", done)

RowTokens(r) ==
    Tokens(r.path, 1, "", {}) \cup Tokens(r.filename, 1, "", {})
      \cup Tokens(r.tags, 1, "", {}) \cup Tokens(r.summary, 1, "", {})
      \cup Tokens(r.description, 1, "", {}) \cup Tokens(r.transcription, 1, "", {})

HasPrefix(tok, q) == Len(tok) >= Len(q) /\ SubSeq(tok, 1, Len(q)) = q

\* videos_search MATCH 'query*' for a query of one bare word.
fts_match(query, r) ==
    \E tok \in RowTokens(r) :
        \E q \in Tokens(query, 1, "", {}) : HasPrefix(tok, q)

\* limit: the default of search_media; the stores of the model hold fewer rows.
SearchLimit == 50

\* Stage 1: the paths of the shadow rows the query matches.
keyword_stage(d, fts, query) ==
    IF fts /\ query # ""
    THEN {r.path : r \in {x \in BagToSet(d.videos_search) : fts_match(query, x)}}
    ELSE {}

RECURSIVE Pow2(_)
Pow2(k) == IF k = 0 THEN 1 ELSE 2 * Pow2(k - 1)

\* The value of a float32 element, in thousandths (ten bits of the significand).
f32_milli(w) ==
    LET neg == w[4] >= 128
        e == (w[4] % 128) * 2 + (w[3] \div 128)
        s10 == (8388608 + (w[3] % 128) * 65536 + w[2] * 256 + w[1]) \div 8192
        mag == IF e = 0 THEN 0
               ELSE IF e >= 127 THEN (s10 * 1000 * Pow2(e - 127)) \div 1024
               ELSE (s10 * 1000) \div (1024 * Pow2(127 - e))
    IN  IF neg THEN 0 - mag ELSE mag

RECURSIVE Dot(_, _)
Dot(u, v) == IF u = <<>> THEN 0 ELSE u[1] * v[1] + Dot(Tail(u), Tail(v))

\* The largest k in lo..hi with k * k <= n, by bisection.
RECURSIVE Isqrt(_, _, _)
Isqrt(n, lo, hi) ==
    IF lo >= hi THEN lo
    ELSE LET mid == (lo + hi + 1) \div 2
         IN  IF mid * mid <= n THEN Isqrt(n, mid, hi) ELSE Isqrt(n, lo, mid - 1)

MaxRoot == 46340

\* np.linalg.norm of a vector given in thousandths, in thousandths.
norm(v) == Isqrt(Dot(v, v), 0, MaxRoot)

SEARCH_CUTOFF == 180
SEARCH_FTS_WEIGHT == 300
SEARCH_VEC_WEIGHT == 700

\* Stage 2: path -> similarity in thousandths, for the cached vectors above the
\* cutoff. The query vector is an Optional vector in thousandths.
vector_stage(cache, query_vector) ==
    IF query_vector = None \/ DOMAIN cache = {} THEN EmptyCache
    ELSE LET q == query_vector[1]
             n == norm(q)
             sim(p) == Dot([k \in 1..Len(cache[p]) |-> f32_milli(cache[p][k])], q) \div n
         IN  IF n > 0
             THEN [p \in {x \in DOMAIN cache : sim(x) > SEARCH_CUTOFF} |-> sim(p)]
             ELSE EmptyCache

\* Stage 3: one result per surfaced path that has a row in the connection's view.
merge(d, fts_paths, vec_scores) ==
    LET s_fts(p) == IF p \in fts_paths THEN 1000 ELSE 0
        s_vec(p) == IF p \in DOMAIN vec_scores THEN vec_scores[p] ELSE 0
    IN  { [path |-> p,
           score |-> (s_fts(p) * SEARCH_FTS_WEIGHT + s_vec(p) * SEARCH_VEC_WEIGHT + 500)
                        \div 1000]
          : p \in {x \in fts_paths \cup DOMAIN vec_scores : HasRow(d.videos, x)} }

----------------------------------------------------------------------------
(* One caller at a time: the store used from a single thread *)

MaxCalls == 3

NoUpserts == [p \in Paths |-> None]

TimesUpserted(path) == IF last_upsert[path] = None THEN 0 ELSE last_upsert[path][1].n

Idle == [pc |-> "idle", uncommitted |-> {}]

\* session_state before the monitor has applied any message: the defaults the
\* rendering reads with .get().
NoProgress == [float |-> <<0, 1>>, text |-> "Initializing..."]

\* No search and no listing has been answered.
NoReads == last_search = <<>> /\ last_list = <<>>

\* No legacy database file is being opened.
NoTable == table = <<>>

\* The HTTP service is not running.
NoService == api_db = FALSE /\ api_processor = FALSE /\ fs = {} /\ reqs = <<>>

\* No import, no prepare() call, no processor and no gallery is looked at.
NoAux == folder = <<>> /\ tagger = <<>> /\ vlm = <<>> /\ gallery = <<>>

\* The dashboard worker before any job.
WorkerIdle ==
    /\ jobs = <<>>
    /\ thread = 0
    /\ stop_event = FALSE
    /\ is_running = FALSE
    /\ queue = <<>>
    /\ jsonl = {}
    /\ mon_pc = "idle"
    /\ progress = NoProgress
    /\ refreshed = {}
    /\ banners = {}
    /\ start_calls = 0
    /\ stop_calls = 0

StoreInit ==
    /\ th = [t \in {} |-> Idle]
    /\ WorkerIdle
    /\ NoReads
    /\ NoTable
    /\ NoService
    /\ NoAux
    /\ db = EmptyDB
    /\ db_committed = EmptyDB
    /\ vector_cache = EmptyCache
    /\ has_fts \in BOOLEAN
    /\ raised = FALSE
    /\ calls = 0
    /\ last_upsert = NoUpserts
    /\ last_fault = "none"

Call(item, embedding_bytes, fault) ==
    /\ calls < MaxCalls
    /\ LET after == upsert_media(db, db_committed, vector_cache, has_fts,
                                 item, embedding_bytes, fault)
       IN  /\ db' = after.db
           /\ db_committed' = after.db_committed
           /\ vector_cache' = after.vector_cache
           /\ raised' = after.raised
    /\ calls' = calls + 1
    /\ last_fault' = IF item.meta.path # "" /\ Fails(fault, has_fts) THEN fault ELSE "none"
    /\ last_upsert' =
          IF item.meta.path = "" THEN last_upsert
          ELSE [last_upsert EXCEPT ![item.meta.path] =
                   Some([item |-> item, embedding |-> embedding_bytes,
                         n |-> TimesUpserted(item.meta.path) + 1])]
    /\ UNCHANGED <<has_fts, conc_vars, ext_vars, worker_vars>>

\* A call of upsert_media in which every statement succeeds.
Upsert == \E item \in Items, e \in EmbeddingArgs : Call(item, e, "none")

\* A call of upsert_media in which one statement raises.
UpsertFailing ==
    \E item \in Items, e \in EmbeddingArgs, f \in Faults \ {"none"} : Call(item, e, f)

\* The store is closed and opened again: VideoDB.__init__ on the same file.
Open ==
    /\ calls > 0
    /\ db' = db_committed
    /\ vector_cache' = _load_vector_cache(db_committed.videos)
    /\ vector_cache' # vector_cache \/ db' # db
    /\ UNCHANGED <<db_committed, has_fts, raised, calls, last_upsert, last_fault>>
    /\ UNCHANGED <<conc_vars, ext_vars, worker_vars>>

Next == Upsert \/ Open

Spec == StoreInit /\ [][Next]_vars

NextFault == Upsert \/ UpsertFailing \/ Open

SpecFault == StoreInit /\ [][NextFault]_vars

----------------------------------------------------------------------------
(* Several threads on one store: the API's request threads share one VideoDB, *)
(* so one connection and one open transaction. Each statement is one step.    *)

NThreads == 2
MaxOps == 3

Threads == 1..NThreads

ConcItems == { MediaItem(PathA, "SciFi", Some(AI1), None),
               MediaItem(PathB, "Action", Some(AI2), None) }
ConcEmbeddings == { None, Some(OneF \o ZeroF) }
Queries == { "nasa", "food" }
QueryVectors == { None, Some(<<1000, 0>>) }

ConcInit ==
    /\ th = [t \in Threads |-> Idle]
    /\ WorkerIdle
    /\ NoReads
    /\ NoTable
    /\ NoService
    /\ NoAux
    /\ db = EmptyDB
    /\ db_committed = EmptyDB
    /\ vector_cache = EmptyCache
    /\ has_fts = TRUE
    /\ raised = FALSE
    /\ calls = 0
    /\ last_upsert = NoUpserts
    /\ last_fault = "none"

Goto(t, pc) == th' = [th EXCEPT ![t].pc = pc]

\* upsert_media is entered: the derived fields are computed, nothing is written.
UpsertEnter(t) ==
    /\ th[t].pc = "idle"
    /\ calls < MaxOps
    /\ calls' = calls + 1
    /\ \E item \in ConcItems, e \in ConcEmbeddings :
          th' = [th EXCEPT ![t] = [pc |-> "insert_videos", item |-> item, embedding |-> e,
                                   uncommitted |-> {}]]
    /\ UNCHANGED <<db, db_committed, vector_cache, has_fts, raised, last_upsert, last_fault>>
    /\ UNCHANGED <<worker_vars, ext_vars>>

\* cursor.execute(INSERT INTO videos ...)
StmtInsertVideos(t) ==
    /\ th[t].pc = "insert_videos"
    /\ db' = [db EXCEPT !.videos = insert_videos(@, VideoRow(th[t].item, th[t].embedding))]
    /\ Goto(t, IF has_fts THEN "fts_delete" ELSE "commit")
    /\ UNCHANGED <<db_committed, vector_cache, has_fts, raised, calls, last_upsert, last_fault>>
    /\ UNCHANGED <<worker_vars, ext_vars>>

\* cursor.execute(DELETE FROM videos_search ...)
StmtFtsDelete(t) ==
    /\ th[t].pc = "fts_delete"
    /\ db' = [db EXCEPT !.videos_search = fts_delete(@, th[t].item.meta.path)]
    /\ Goto(t, "fts_insert")
    /\ UNCHANGED <<db_committed, vector_cache, has_fts, raised, calls, last_upsert, last_fault>>
    /\ UNCHANGED <<worker_vars, ext_vars>>

\* cursor.execute(INSERT INTO videos_search ...)
StmtFtsInsert(t) ==
    /\ th[t].pc = "fts_insert"
    /\ db' = [db EXCEPT !.videos_search = fts_insert(@, SearchRow(th[t].item))]
    /\ Goto(t, "commit")
    /\ UNCHANGED <<db_committed, vector_cache, has_fts, raised, calls, last_upsert, last_fault>>
    /\ UNCHANGED <<worker_vars, ext_vars>>

\* self.conn.commit(): everything the connection wrote, whichever thread wrote it.
StmtCommit(t) ==
    /\ th[t].pc = "commit"
    /\ db_committed' = db
    /\ Goto(t, "cache")
    /\ UNCHANGED <<db, vector_cache, has_fts, raised, calls, last_upsert, last_fault>>
    /\ UNCHANGED <<worker_vars, ext_vars>>

\* if embedding_bytes: self._vector_cache[path] = vec; then the call returns.
CacheUpdate(t) ==
    /\ th[t].pc = "cache"
    /\ vector_cache' =
          IF Truthy(th[t].embedding) /\ Decodable(th[t].embedding[1])
          THEN cache_put(vector_cache, th[t].item.meta.path, frombuffer(th[t].embedding[1]))
          ELSE vector_cache
    /\ th' = [th EXCEPT ![t] = Idle]
    /\ UNCHANGED <<db, db_committed, has_fts, raised, calls, last_upsert, last_fault>>
    /\ UNCHANGED <<worker_vars, ext_vars>>

\* A statement or the commit raises: control passes to the handler.
StmtRaises(t) ==
    /\ th[t].pc \in {"insert_videos", "fts_delete", "fts_insert", "commit"}
    /\ Goto(t, "rollback")
    /\ UNCHANGED store_vars
    /\ UNCHANGED <<worker_vars, ext_vars>>

\* except Exception: self.conn.rollback(); then the call returns.
Rollback(t) ==
    /\ th[t].pc = "rollback"
    /\ db' = rollback(db, db_committed)
    /\ th' = [th EXCEPT ![t] = Idle]
    /\ UNCHANGED <<db_committed, vector_cache, has_fts, raised, calls, last_upsert, last_fault>>
    /\ UNCHANGED <<worker_vars, ext_vars>>

\* search_media, stage 1: the MATCH query on the shared connection.
SearchKeyword(t) ==
    /\ th[t].pc = "idle"
    /\ calls < MaxOps
    /\ calls' = calls + 1
    /\ \E query \in Queries, qv \in QueryVectors :
          th' = [th EXCEPT ![t] = [pc |-> "vector_stage", query_vector |-> qv,
                                   fts_paths |-> keyword_stage(db, has_fts, query),
                                   uncommitted |-> {}]]
    /\ UNCHANGED <<db, db_committed, vector_cache, has_fts, raised, last_upsert, last_fault>>
    /\ UNCHANGED <<worker_vars, ext_vars>>

\* search_media, stage 2: similarities over the vector cache.
SearchVector(t) ==
    /\ th[t].pc = "vector_stage"
    /\ th' = [th EXCEPT ![t] = [pc |-> "merge", fts_paths |-> th[t].fts_paths,
                                vec_scores |-> vector_stage(vector_cache, th[t].query_vector),
                                uncommitted |-> {}]]
    /\ UNCHANGED store_vars
    /\ UNCHANGED <<worker_vars, ext_vars>>

\* search_media, stage 3: the light fetches on the shared connection, and the
\* return. uncommitted records the returned paths with no durable row.
SearchMerge(t) ==
    /\ th[t].pc = "merge"
    /\ LET results == merge(db, th[t].fts_paths, th[t].vec_scores)
       IN  th' = [th EXCEPT ![t] =
                    [pc |-> "idle",
                     uncommitted |-> {r.path : r \in {x \in results :
                                          ~HasRow(db_committed.videos, x.path)}}]]
    /\ UNCHANGED store_vars
    /\ UNCHANGED <<worker_vars, ext_vars>>

ConcNext ==
    \E t \in Threads :
        \/ UpsertEnter(t) \/ StmtInsertVideos(t) \/ StmtFtsDelete(t) \/ StmtFtsInsert(t)
        \/ StmtCommit(t) \/ CacheUpdate(t) \/ StmtRaises(t) \/ Rollback(t)
        \/ SearchKeyword(t) \/ SearchVector(t) \/ SearchMerge(t)

SpecConc == ConcInit /\ [][ConcNext]_vars

-----------------------------------------------------------------------------
(* The dashboard's background job worker (VideoWorker), its job thread       *)
(* (_run_job) and the progress monitor of the dashboard (monitor_progress).  *)

MaxStarts == 2      \* start_processing calls explored
MaxStops == 1       \* stop calls explored

PROGRESS == "PROGRESS"
STATUS == "STATUS"
DONE == "DONE"
ERROR == "ERROR"
Terminal == {DONE, ERROR}

\* A queue entry (signal, data); job is the thread that put it (0: the UI
\* thread, from stop), cur/total are the counters of a PROGRESS payload.
Msg(sig, job, cur, total, text) ==
    [sig |-> sig, job |-> job, cur |-> cur, total |-> total, text |-> text]

MODEL_TIERS == {"smart", "super"}
Tiers == {"smart", "turbo"}

ModelFile == "SmolVLM2-500M-Video-Instruct-Q8_0.gguf"
MmprojFile == "mmproj-SmolVLM2-500M-Video-Instruct-Q8_0.gguf"
\* The model files _download_models finds absent or invalid, in download order.
Missing == { <<>>, <<MmprojFile>> }

\* What os.walk collects from the target folder.
Listings == { <<>>, <<PathA, PathB>> }

\* The locals of a job thread at its start, with the history of the thread:
\* the messages it has put (puts), the paths process_video was called on
\* (called), whether stop() was called while it was alive (stopped), the loop
\* iterations that passed the stop check after that (passed_after_stop), the
\* process_video calls that began after it (began_after_stop), the file that
\* was being processed when it came (inflight_at_stop) and whether a
\* start_processing call was rejected after it (rejected_after_stop).
NewJob(tier, force_reprocess) ==
    [pc |-> "begin", tier |-> tier, force_reprocess |-> force_reprocess,
     missing |-> <<>>, exc |-> "", files |-> <<>>, idx |-> 0,
     existing_paths |-> {}, result |-> None,
     puts |-> <<>>, called |-> {}, returned_ok |-> {},
     stopped |-> FALSE, passed_after_stop |-> 0, began_after_stop |-> {},
     inflight_at_stop |-> None, rejected_after_stop |-> FALSE]

is_alive(js, j) == js[j].pc \notin {"dead", "collected"}

\* What is left of a dead thread once self.thread refers to a newer one.
Collected == [NewJob("", FALSE) EXCEPT !.pc = "collected"]

collect(js) == [j \in DOMAIN js |-> IF is_alive(js, j) THEN js[j] ELSE Collected]

\* The guard of start_processing.
already_running_by_flag(js, t, running) == running

already_running(js, t, running) == t # 0 /\ is_alive(js, t)

\* start_processing(tier, target_dir, interval, debug, force_reprocess), called
\* by the UI thread between two runs of the monitor.
start_processing(tier, force_reprocess) ==
    /\ mon_pc = "idle"
    /\ start_calls < MaxStarts
    /\ start_calls' = start_calls + 1
    /\ IF already_running(jobs, thread, is_running)
       THEN /\ jobs' = [jobs EXCEPT ![thread].rejected_after_stop = @ \/ jobs[thread].stopped]
            /\ UNCHANGED <<thread, stop_event, is_running>>
       ELSE /\ stop_event' = FALSE
            /\ is_running' = TRUE
            /\ jobs' = Append(collect(jobs), NewJob(tier, force_reprocess))
            /\ thread' = Len(jobs) + 1
    /\ UNCHANGED <<queue, jsonl, mon_pc, progress, refreshed, banners, stop_calls>>
    /\ UNCHANGED <<store_vars, conc_vars, ext_vars>>

StartProcessing == \E tier \in Tiers, force_reprocess \in BOOLEAN :
                       start_processing(tier, force_reprocess)

\* stop(), called by the UI thread.
Stop ==
    /\ mon_pc = "idle"
    /\ stop_calls < MaxStops
    /\ stop_calls' = stop_calls + 1
    /\ stop_event' = TRUE
    /\ is_running' = FALSE
    /\ queue' = Append(queue, Msg(STATUS, 0, 0, 0, "Stopping..."))
    /\ jobs' = [j \in DOMAIN jobs |->
                  IF is_alive(jobs, j)
                  THEN [jobs[j] EXCEPT
                          !.stopped = TRUE,
                          !.inflight_at_stop =
                              IF jobs[j].pc \in {"processing", "upsert"} /\ ~jobs[j].stopped
                              THEN Some(jobs[j].files[jobs[j].idx + 1]) ELSE @]
                  ELSE jobs[j]]
    /\ UNCHANGED <<thread, jsonl, mon_pc, progress, refreshed, banners, start_calls>>
    /\ UNCHANGED <<store_vars, conc_vars, ext_vars>>

\* queue.put(m) by job thread j, which moves to pc.
Put(j, m, pc) ==
    /\ queue' = Append(queue, m)
    /\ jobs' = [jobs EXCEPT ![j].puts = Append(@, m), ![j].pc = pc]

\* Job thread j exists and is at pc.
At(j, pc) == j \in DOMAIN jobs /\ jobs[j].pc = pc

JobGoto(j, pc) == jobs' = [jobs EXCEPT ![j].pc = pc]

\* What a job step that only puts a message leaves alone.
PutFrame ==
    /\ UNCHANGED <<thread, stop_event, is_running, jsonl, mon_pc, progress,
                   refreshed, banners, start_calls, stop_calls>>
    /\ UNCHANGED <<store_vars, conc_vars, ext_vars>>

\* What a job step on its own locals leaves alone.
LocalFrame ==
    /\ UNCHANGED queue
    /\ PutFrame

\* _run_job: the first put, then VideoTagger(tier), which raises ValueError on
\* a tier that is not in MODEL_TIERS.
RunJobBegin(j) ==
    /\ At(j, "begin")
    /\ queue' = Append(queue, Msg(STATUS, j, 0, 0, "Initializing Engine..."))
    /\ jobs' = [jobs EXCEPT
                  ![j].puts = Append(@, Msg(STATUS, j, 0, 0, "Initializing Engine...")),
                  ![j].pc = IF jobs[j].tier \in MODEL_TIERS THEN "prepare" ELSE "crash",
                  ![j].exc = IF jobs[j].tier \in MODEL_TIERS THEN ""
                             ELSE "Invalid tier: " \o jobs[j].tier]
    /\ PutFrame

\* prepare: _setup_directories, then the verification of the two model files.
PrepareVerifies(j) ==
    /\ At(j, "prepare")
    /\ \E missing \in Missing :
          jobs' = [jobs EXCEPT ![j].missing = missing,
                               ![j].pc = IF missing = <<>> THEN "load" ELSE "download"]
    /\ LocalFrame

\* prepare: os.makedirs or os.remove raises OSError, which _run_job's inner
\* handler turns into an ERROR message and a return.
PrepareRaises(j) ==
    /\ At(j, "prepare")
    /\ Put(j, Msg(ERROR, j, 0, 0, "Engine Init Failed: Permission denied"), "finally")
    /\ PutFrame

\* _download_models: the callback announces the next file to download.
DownloadCallback(j) ==
    /\ At(j, "download")
    /\ Put(j, Msg(STATUS, j, 0, 0,
                  "Downloading " \o Head(jobs[j].missing) \o " (This may take a while)..."),
           "fetch")
    /\ PutFrame

\* hf_hub_download and the verification after it succeed.
DownloadSucceeds(j) ==
    /\ At(j, "fetch")
    /\ jobs' = [jobs EXCEPT ![j].missing = Tail(@),
                            ![j].pc = IF Tail(jobs[j].missing) = <<>> THEN "load"
                                      ELSE "download"]
    /\ LocalFrame

\* The download fails or the downloaded file's hash does not match:
\* sys.exit(1), a SystemExit that no "except Exception" of _run_job catches.
DownloadExits(j) ==
    /\ At(j, "fetch")
    /\ JobGoto(j, "finally")
    /\ LocalFrame

\* _load_engine succeeds.
LoadEngine(j) ==
    /\ At(j, "load")
    /\ JobGoto(j, "migrate")
    /\ LocalFrame

\* _load_engine fails: sys.exit(1).
LoadEngineExits(j) ==
    /\ At(j, "load")
    /\ JobGoto(j, "finally")
    /\ LocalFrame

MigrateStatus(j) ==
    /\ At(j, "migrate")
    /\ Put(j, Msg(STATUS, j, 0, 0, "Checking for legacy data..."), "import")
    /\ PutFrame

\* The record of a legacy log for path p: a unified typed record.
LegacyRecord(p) == MediaItem(p, "", Some(AI1), None)

\* The store after upsert_media of each record of ps, in some order.
RECURSIVE upsert_all(_, _, _)
upsert_all(st, fts, ps) ==
    IF ps = {} THEN st
    ELSE LET p == CHOOSE q \in ps : TRUE
             r == upsert_media(st.db, st.db_committed, st.vector_cache, fts,
                               LegacyRecord(p), None, "none")
         IN  upsert_all(r, fts, ps \ {p})

\* migrate_jsonl(target_dir): every record of the legacy logs is upserted and
\* the logs are renamed.
MigrateJsonl(j) ==
    /\ At(j, "import")
    /\ LET r == upsert_all([db |-> db, db_committed |-> db_committed,
                            vector_cache |-> vector_cache], has_fts, jsonl)
       IN  /\ db' = r.db
           /\ db_committed' = r.db_committed
           /\ vector_cache' = r.vector_cache
    /\ jsonl' = {}
    /\ JobGoto(j, "scan")
    /\ UNCHANGED <<has_fts, raised, calls, last_upsert, last_fault, conc_vars, ext_vars>>
    /\ UNCHANGED <<thread, stop_event, is_running, queue, mon_pc, progress,
                   refreshed, banners, start_calls, stop_calls>>

\* The walk of the target folder, and the message about its result.
Scan(j) ==
    /\ At(j, "scan")
    /\ \E files \in Listings :
          LET total == Len(files)
              m == IF total = 0 THEN Msg(ERROR, j, 0, 0, "No video files found.")
                   ELSE Msg(STATUS, j, 0, 0, "Found " \o ToString(total) \o " videos.")
          IN  /\ queue' = Append(queue, m)
              /\ jobs' = [jobs EXCEPT
                            ![j].files = files,
                            ![j].puts = Append(@, m),
                            ![j].pc = IF total = 0 THEN "finally"
                                      ELSE IF jobs[j].force_reprocess THEN "loop"
                                      ELSE "snapshot"]
    /\ PutFrame

SnapshotStatus(j) ==
    /\ At(j, "snapshot")
    /\ Put(j, Msg(STATUS, j, 0, 0, "Checking existing index..."), "fetch_paths")
    /\ PutFrame

get_all_file_paths_set(d) == { d.videos[i].path : i \in 1..Len(d.videos) }

SnapshotRead(j) ==
    /\ At(j, "fetch_paths")
    /\ jobs' = [jobs EXCEPT ![j].existing_paths = get_all_file_paths_set(db),
                            ![j].pc = "loop"]
    /\ LocalFrame

CurrentFile(job) == job.files[job.idx + 1]

\* stop_event.is_set(), as the loop reads it.
is_set_never(event) == FALSE

is_set(event) == event

\* The skip check of the loop.
in_existing_paths_never(file_path, existing_paths) == FALSE

in_existing_paths(file_path, existing_paths) == file_path \in existing_paths

\* The head of the loop: the end of the listing, then the stop flag.
LoopCheck(j) ==
    /\ At(j, "loop")
    /\ IF jobs[j].idx >= Len(jobs[j].files) \/ is_set(stop_event)
       THEN JobGoto(j, "done")
       ELSE jobs' = [jobs EXCEPT
                       ![j].pc = "body",
                       ![j].passed_after_stop = IF jobs[j].stopped THEN @ + 1 ELSE @]
    /\ LocalFrame

\* The skip check: a path of the snapshot is announced as skipped and the loop
\* continues.
LoopSkip(j) ==
    /\ At(j, "body")
    /\ in_existing_paths(CurrentFile(jobs[j]), jobs[j].existing_paths)
    /\ LET m == Msg(PROGRESS, j, jobs[j].idx + 1, Len(jobs[j].files),
                    "Skipping " \o basename(CurrentFile(jobs[j])))
       IN  /\ queue' = Append(queue, m)
           /\ jobs' = [jobs EXCEPT ![j].puts = Append(@, m),
                                   ![j].idx = @ + 1,
                                   ![j].pc = "loop"]
    /\ PutFrame

\* Any other path is announced and process_video is called on it.
LoopProcess(j) ==
    /\ At(j, "body")
    /\ ~in_existing_paths(CurrentFile(jobs[j]), jobs[j].existing_paths)
    /\ LET m == Msg(PROGRESS, j, jobs[j].idx + 1, Len(jobs[j].files),
                    basename(CurrentFile(jobs[j])))
       IN  /\ queue' = Append(queue, m)
           /\ jobs' = [jobs EXCEPT
                         ![j].puts = Append(@, m),
                         ![j].called = @ \cup {CurrentFile(jobs[j])},
                         ![j].began_after_stop =
                             IF jobs[j].stopped THEN @ \cup {CurrentFile(jobs[j])} ELSE @,
                         ![j].pc = "processing"]
    /\ PutFrame

\* The dict process_video returns for a file it could analyse.
Result(path) == [meta |-> [file |-> basename(path), path |-> path], ai |-> AI2]

\* process_video returns a result.
ProcessVideoReturns(j) ==
    /\ At(j, "processing")
    /\ jobs' = [jobs EXCEPT ![j].result = Some(Result(CurrentFile(jobs[j]))),
                            ![j].returned_ok = @ \cup {CurrentFile(jobs[j])},
                            ![j].pc = "upsert"]
    /\ LocalFrame

\* process_video returns a dict with an "error" key: logged, the loop goes on.
ProcessVideoReportsError(j) ==
    /\ At(j, "processing")
    /\ jobs' = [jobs EXCEPT ![j].idx = @ + 1, ![j].pc = "loop"]
    /\ LocalFrame

\* A handler that gives the job up on the first exception of an iteration.
ProcessVideoRaises_aborting(j) ==
    /\ At(j, "processing")
    /\ jobs' = [jobs EXCEPT ![j].exc = "Processing failed for " \o basename(CurrentFile(jobs[j])),
                            ![j].pc = "crash"]
    /\ LocalFrame

\* The iteration raises (process_video itself, say): the handler of the
\* iteration logs the exception and the loop goes on with the next file.
ProcessVideoRaises(j) ==
    /\ At(j, "processing")
    /\ jobs' = [jobs EXCEPT ![j].exc = "Processing failed for " \o basename(CurrentFile(jobs[j])),
                            ![j].idx = @ + 1, ![j].pc = "loop"]
    /\ LocalFrame

\* upsert_video(result) of the store's narrow interface: the result is
\* upserted as one committed row keyed by its path.
upsert_video(d, dc, cache, fts, result) ==
    upsert_media(d, dc, cache, fts,
                 MediaItem(result.meta.path, "", Some(result.ai), None), None, "none")

\* The else branch without its call: the result is dropped.
UpsertVideo_dropped(j) ==
    /\ At(j, "upsert")
    /\ jobs' = [jobs EXCEPT ![j].result = None, ![j].idx = @ + 1, ![j].pc = "loop"]
    /\ LocalFrame

UpsertVideo(j) ==
    /\ At(j, "upsert")
    /\ LET r == upsert_video(db, db_committed, vector_cache, has_fts, jobs[j].result[1])
       IN  /\ db' = r.db
           /\ db_committed' = r.db_committed
           /\ vector_cache' = r.vector_cache
    /\ jobs' = [jobs EXCEPT ![j].result = None, ![j].idx = @ + 1, ![j].pc = "loop"]
    /\ UNCHANGED <<has_fts, raised, calls, last_upsert, last_fault, conc_vars, ext_vars>>
    /\ UNCHANGED <<thread, stop_event, is_running, queue, jsonl, mon_pc, progress,
                   refreshed, banners, start_calls, stop_calls>>

\* After the loop.
Done(j) ==
    /\ At(j, "done")
    /\ Put(j, Msg(DONE, j, 0, 0, "Processing Complete"), "finally")
    /\ PutFrame

\* The outer handler of _run_job.
Crash(j) ==
    /\ At(j, "crash")
    /\ Put(j, Msg(ERROR, j, 0, 0, "Worker Crash: " \o jobs[j].exc), "finally")
    /\ PutFrame

\* The finally clause; the thread ends after it.
Finally(j) ==
    /\ At(j, "finally")
    /\ is_running' = FALSE
    /\ JobGoto(j, "dead")
    /\ UNCHANGED <<thread, stop_event, queue, jsonl, mon_pc, progress,
                   refreshed, banners, start_calls, stop_calls>>
    /\ UNCHANGED <<store_vars, conc_vars, ext_vars>>

\* A run of the monitor fragment: it looks at the queue only while is_running.
MonitorTick ==
    /\ mon_pc = "idle"
    /\ is_running
    /\ mon_pc' = "drain"
    /\ UNCHANGED <<jobs, thread, stop_event, is_running, queue, jsonl, progress,
                   refreshed, banners, start_calls, stop_calls>>
    /\ UNCHANGED <<store_vars, conc_vars, ext_vars>>

\* session_state after the monitor applies message m.
apply(p, m) ==
    IF m.sig = PROGRESS
    THEN [float |-> <<m.cur, m.total>>,
          text |-> "Processing: " \o m.text \o " (" \o ToString(m.cur) \o "/"
                   \o ToString(m.total) \o ")"]
    ELSE IF m.sig = STATUS THEN [p EXCEPT !.text = m.text]
    ELSE IF m.sig = DONE THEN [float |-> <<1, 1>>, text |-> "Done!"]
    ELSE p

\* The drain loop over queue q from session state [progress, refreshed,
\* banners]: get_nowait() until it raises Empty, or until a DONE, whose
\* st.rerun() leaves the loop with the rest of the queue in place.
RECURSIVE drain(_, _)
drain(q, ss) ==
    IF q = <<>> THEN [queue |-> q, ss |-> ss]
    ELSE LET m == Head(q)
             next == [progress |-> apply(ss.progress, m),
                      refreshed |-> IF m.sig = DONE THEN ss.refreshed \cup {m.job}
                                    ELSE ss.refreshed,
                      banners |-> IF m.sig = ERROR THEN ss.banners \cup {m.job}
                                  ELSE ss.banners]
         IN  IF m.sig = DONE THEN [queue |-> Tail(q), ss |-> next]
             ELSE drain(Tail(q), next)

\* The rest of the run: the messages in the queue are taken and applied.
MonitorDrain ==
    /\ mon_pc = "drain"
    /\ LET r == drain(queue, [progress |-> progress, refreshed |-> refreshed,
                              banners |-> banners])
       IN  /\ queue' = r.queue
           /\ progress' = r.ss.progress
           /\ refreshed' = r.ss.refreshed
           /\ banners' = r.ss.banners
    /\ mon_pc' = "idle"
    /\ UNCHANGED <<jobs, thread, stop_event, is_running, jsonl, start_calls, stop_calls>>
    /\ UNCHANGED <<store_vars, conc_vars, ext_vars>>

JobStep(j) ==
    \/ RunJobBegin(j) \/ PrepareVerifies(j) \/ PrepareRaises(j)
    \/ DownloadCallback(j) \/ DownloadSucceeds(j) \/ DownloadExits(j)
    \/ LoadEngine(j) \/ LoadEngineExits(j)
    \/ MigrateStatus(j) \/ MigrateJsonl(j) \/ Scan(j)
    \/ SnapshotStatus(j) \/ SnapshotRead(j)
    \/ LoopCheck(j) \/ LoopSkip(j) \/ LoopProcess(j)
    \/ ProcessVideoReturns(j) \/ ProcessVideoReportsError(j) \/ ProcessVideoRaises(j)
    \/ UpsertVideo(j)
    \/ Done(j) \/ Crash(j) \/ Finally(j)

JobIds == 1..MaxStarts

JobSteps == \E j \in JobIds : JobStep(j)

Monitor == MonitorTick \/ MonitorDrain

\* The dashboard opens an empty store on a folder whose legacy log holds a
\* record for PathA.
WorkerInit ==
    /\ th = [t \in {} |-> Idle]
    /\ db = EmptyDB
    /\ db_committed = EmptyDB
    /\ vector_cache = EmptyCache
    /\ has_fts = TRUE
    /\ raised = FALSE
    /\ calls = 0
    /\ last_upsert = NoUpserts
    /\ last_fault = "none"
    /\ NoReads
    /\ NoTable
    /\ NoService
    /\ NoAux
    /\ jobs = <<>>
    /\ thread = 0
    /\ stop_event = FALSE
    /\ is_running = FALSE
    /\ queue = <<>>
    /\ jsonl = {PathA}
    /\ mon_pc = "idle"
    /\ progress = NoProgress
    /\ refreshed = {}
    /\ banners = {}
    /\ start_calls = 0
    /\ stop_calls = 0

WorkerNext == StartProcessing \/ Stop \/ JobSteps \/ Monitor

SpecWorker == WorkerInit /\ [][WorkerNext]_vars

\* The scheduler runs every thread that can take a step, and the fragment runs
\* once a second.
SpecWorkerFair == SpecWorker /\ WF_vars(JobSteps) /\ WF_vars(Monitor)

----------------------------------------------------------------------------
(* C1: after any sequence of upserts there is exactly one row per distinct   *)
(* non-empty path that was upserted, none for any other path, and the row's  *)
(* tags, summary and description are those of the most recent upsert of the  *)
(* path.                                                                     *)
C1_OneRowPerPathLatestWins ==
    /\ \A i \in 1..Len(db_committed.videos) : db_committed.videos[i].path \in Paths
    /\ \A p \in Paths :
          IF last_upsert[p] = None
          THEN RowsOf(db_committed.videos, p) = {}
          ELSE /\ Cardinality(RowsOf(db_committed.videos, p)) = 1
               /\ \A i \in RowsOf(db_committed.videos, p) :
                     LET row == db_committed.videos[i]
                         item == last_upsert[p][1].item
                     IN  /\ row.tags = tags_str(item)
                         /\ row.summary = summary_of(item)
                         /\ row.description = description_of(item)

\* The same path upserted twice with different AI fields, as in test_upsert_video.
C1_Witness ==
    /\ TimesUpserted(PathA) >= 2
    /\ Len(db_committed.videos) = 1
    /\ db_committed.videos[1].summary = "Updated Summary"
    /\ db_committed.videos[1].tags = "food"

(* C7: the live vector cache always equals the cache that opening the store  *)
(* again would load from the stored embeddings.                              *)
C7_LiveCacheEqualsReloaded ==
    vector_cache = _load_vector_cache(db_committed.videos)

(* C9: a call of upsert_media in which a database statement fails returns   *)
(* normally and leaves the base table, the shadow table and the vector cache *)
(* exactly as they were before the call.                                     *)
C9_FailedUpsertChangesNothing ==
    [][(calls' # calls /\ last_fault' # "none") =>
          /\ db' = db
          /\ db_committed' = db_committed
          /\ vector_cache' = vector_cache
          /\ ~raised']_vars

\* The shadow-table insert failed in a store that holds a row and a cached vector.
C9_Witness ==
    /\ last_fault = "fts_insert"
    /\ Len(db_committed.videos) > 0
    /\ vector_cache # EmptyCache

(* C8: with several threads upserting on one shared store, every committed  *)
(* state holds each upsert entirely or not at all: a path has a base row     *)
(* exactly when it has its one shadow row, and the two carry the same text.  *)
C8_CommittedUpsertsAreWhole ==
    has_fts =>
      \A p \in Paths :
        LET base == RowsOf(db_committed.videos, p)
            shadow == {r \in BagToSet(db_committed.videos_search) : r.path = p}
        IN  \/ base = {} /\ shadow = {}
            \/ /\ base # {}
               /\ \E r \in shadow :
                     /\ shadow = {r}
                     /\ CopiesIn(r, db_committed.videos_search) = 1
                     /\ \A i \in base :
                           /\ db_committed.videos[i].tags = r.tags
                           /\ db_committed.videos[i].summary = r.summary
                           /\ db_committed.videos[i].description = r.description

(* C10: a search that interleaves with an upsert on the same store never     *)
(* returns a result for a path whose row write has not committed.            *)
C10_NoHitBeforeCommit ==
    \A t \in DOMAIN th : th[t].uncommitted = {}

-----------------------------------------------------------------------------
AliveJobs == {j \in DOMAIN jobs : is_alive(jobs, j)}

Range(seq) == {seq[i] : i \in 1..Len(seq)}

TerminalPuts(job) == {i \in 1..Len(job.puts) : job.puts[i].sig \in Terminal}

SkipPut(job, i) ==
    \E k \in 1..Len(job.puts) :
        /\ job.puts[k].sig = PROGRESS
        /\ job.puts[k].cur = i
        /\ job.puts[k].text = "Skipping " \o basename(job.files[i])

(* C2: at most one job thread is alive at any time, and a start_processing   *)
(* call made while a job thread is alive (also one that stop() has been      *)
(* called on and that has not exited yet) starts no thread and leaves the    *)
(* stop flag, the running flag, the queue and every thread where they were.  *)
C2_AtMostOneJobThread ==
    /\ [](Cardinality(AliveJobs) <= 1)
    /\ [][(start_calls' # start_calls /\ AliveJobs # {}) =>
            /\ Len(jobs') = Len(jobs)
            /\ \A j \in DOMAIN jobs : jobs'[j].pc = jobs[j].pc
            /\ thread' = thread
            /\ stop_event' = stop_event
            /\ is_running' = is_running
            /\ queue' = queue]_vars

C2_Witness ==
    /\ Len(jobs) = 1
    /\ is_alive(jobs, 1)
    /\ jobs[1].stopped
    /\ jobs[1].rejected_after_stop
    /\ stop_event
    /\ ~is_running

(* C3, as stated: a job started with force_reprocess=false that has ended    *)
(* has called process_video on no file whose path was in its snapshot of the *)
(* store, and has put a PROGRESS message labelled "Skipping ..." for every   *)
(* such file of its listing.                                                 *)
C3_SkipsEveryIndexedFile ==
    \A j \in DOMAIN jobs :
        (jobs[j].pc = "dead" /\ ~jobs[j].force_reprocess) =>
            \A i \in 1..Len(jobs[j].files) :
                jobs[j].files[i] \in jobs[j].existing_paths =>
                    /\ jobs[j].files[i] \notin jobs[j].called
                    /\ SkipPut(jobs[j], i)

(* C3, amended: a job started with force_reprocess=false never calls         *)
(* process_video on a file whose path was in its snapshot of the store, and  *)
(* it has put a PROGRESS message labelled "Skipping ..." for every such file *)
(* that its loop has reached, which is every such file of the listing when   *)
(* the job ends without stop() having been called.                           *)
C3_SkipsIndexedFilesReached ==
    \A j \in DOMAIN jobs :
        ~jobs[j].force_reprocess =>
            \A i \in 1..Len(jobs[j].files) :
                jobs[j].files[i] \in jobs[j].existing_paths =>
                    /\ jobs[j].files[i] \notin jobs[j].called
                    /\ i <= jobs[j].idx => SkipPut(jobs[j], i)
                    /\ (jobs[j].pc = "dead" /\ ~jobs[j].stopped) => SkipPut(jobs[j], i)

C3_Witness ==
    \E j \in DOMAIN jobs :
        /\ jobs[j].pc = "dead"
        /\ ~jobs[j].force_reprocess
        /\ jobs[j].files = <<PathA, PathB>>
        /\ jobs[j].existing_paths = {PathA}
        /\ SkipPut(jobs[j], 1)
        /\ jobs[j].called = {PathB}

ResultStored(path) ==
    \E i \in 1..Len(db_committed.videos) :
        /\ db_committed.videos[i].path = path
        /\ db_committed.videos[i].summary = Result(path).ai.summary

C5_ExactlyOneTerminalLast ==
    \A j \in DOMAIN jobs :
        jobs[j].pc = "dead" =>
            /\ Cardinality(TerminalPuts(jobs[j])) = 1
            /\ jobs[j].puts[Len(jobs[j].puts)].sig \in Terminal

TerminalQueued(j) == \E i \in 1..Len(queue) : queue[i].job = j /\ queue[i].sig \in Terminal

ActedOn(j) == j \in refreshed \cup banners

(* C6: every terminal message that a job thread puts in the queue is         *)
(* eventually taken from it by the monitor and acted on: a refresh for a     *)
(* DONE, an error banner for an ERROR.                                       *)
C6_TerminalEventuallyActedOn ==
    \A j \in JobIds : TerminalQueued(j) ~> ActedOn(j)

-----------------------------------------------------------------------------
(* C13: after any sequence of upserts, every row of the store has            *)
(* parent_folder equal to the basename of the directory that contains its    *)
(* path, whatever parent_folder the upserted record carried.                 *)
C13_ParentFolderDerivedFromPath ==
    \A i \in 1..Len(db_committed.videos) :
        db_committed.videos[i].parent_folder
            = basename(dirname(db_committed.videos[i].path))


----------------------------------------------------------------------------
(* Reads of the store: search_media between upserts *)

\* float32 2.0, little endian
TwoF == <<0, 0, 0, 64>>

\* The vectors [1, 0], [0, 1] and [2, 0] as float32 bytes; upsert_media stores
\* whatever bytes it is handed.
ReadEmbeddings ==
    { None, Some(OneF \o ZeroF), Some(ZeroF \o OneF), Some(TwoF \o ZeroF) }

ReadItems ==
    { Stamped(MediaItem(PathA, "SciFi", Some(AI1), Some([full_text |-> "hello moon"])), Day1, 10),
      Stamped(MediaItem(PathB, "Action", Some(AI2), None), Day2, 20) }

\* The q of a search request; "" is a search by vector alone.
SearchQueries == { "", "moon", "pas", "scifi" }

\* The embedding of the query text, in thousandths; None: no embedder.
SearchVectors == { None, Some(<<1000, 0>>), Some(<<0, 1000>>) }

search_media(d, cache, fts, query, query_vector) ==
    LET fts_paths == keyword_stage(d, fts, query)
        vec_scores == vector_stage(cache, query_vector)
    IN  [query |-> query,
         query_vector |-> query_vector,
         fts_paths |-> fts_paths,
         vec_scores |-> vec_scores,
         results |-> merge(d, fts_paths, vec_scores)]

ReadUpsert == \E item \in ReadItems, e \in ReadEmbeddings : Call(item, e, "none")

Search ==
    /\ \E query \in SearchQueries, qv \in SearchVectors :
          /\ query # "" \/ qv # None
          /\ last_search' = Some(search_media(db, vector_cache, has_fts, query, qv))
    /\ last_search' # last_search
    /\ UNCHANGED <<store_vars, conc_vars, worker_vars, last_list, table, api_vars, aux_vars>>


SearchNext == ReadUpsert \/ Search

SpecSearch == StoreInit /\ [][SearchNext]_vars


(* C11: every result of a search has the score round(0.3 * k + 0.7 * s) in
   thousandths, k being 1 for a keyword hit and s the similarity above the
   cutoff; a result found by the vector stage alone scores at most 0.7 and a
   result found by the keyword stage alone scores at most 0.3, whatever
   embeddings upsert_media stored. *)
C11_HybridScoreWithinWeights ==
    last_search # None =>
        \A r \in last_search[1].results :
            LET k == IF r.path \in last_search[1].fts_paths THEN 1000 ELSE 0
                s == IF r.path \in DOMAIN last_search[1].vec_scores
                     THEN last_search[1].vec_scores[r.path] ELSE 0
            IN  /\ r.score = (SEARCH_FTS_WEIGHT * k + SEARCH_VEC_WEIGHT * s + 500) \div 1000
                /\ k = 0 => r.score <= SEARCH_VEC_WEIGHT
                /\ s = 0 => r.score <= SEARCH_FTS_WEIGHT

\* The words of the text fields the claim lists: filename, tags, summary,
\* description, transcription.
TextFieldTokens(r) ==
    Tokens(r.filename, 1, "", {}) \cup Tokens(r.tags, 1, "", {})
      \cup Tokens(r.summary, 1, "", {}) \cup Tokens(r.description, 1, "", {})
      \cup Tokens(r.transcription, 1, "", {})

TextFieldMatches(query, videos) ==
    { videos[i].path : i \in { j \in 1..Len(videos) :
          \E tok \in TextFieldTokens(videos[j]) :
              \E q \in Tokens(query, 1, "", {}) : HasPrefix(tok, q) } }

(* C12: a search with a non-empty query and no query vector, on a store of at
   most limit rows, returns exactly the rows in which filename, tags, summary,
   description or transcription contains a word beginning with the query. *)
C12_KeywordOnlyReturnsPrefixMatches ==
    [][ ( /\ last_search' # last_search
          /\ last_search'[1].query # ""
          /\ last_search'[1].query_vector = None
          /\ Len(db.videos) <= SearchLimit )
        => { r.path : r \in last_search'[1].results }
             = TextFieldMatches(last_search'[1].query, db.videos) ]_vars


----------------------------------------------------------------------------
(* The listing: get_all_media, get_total_count and GET /media over them *)

\* The characters of an ISO timestamp, in the order of their byte values.
DateChars == "-0123456789:T"

RECURSIVE CharRank(_, _)
CharRank(c, i) ==
    IF i > Len(DateChars) THEN 0
    ELSE IF SubSeq(DateChars, i, i) = c THEN i ELSE CharRank(c, i + 1)

\* a <= b for TEXT values under SQLite's BINARY collation, from position i on.
RECURSIVE TextLeq(_, _, _)
TextLeq(a, b, i) ==
    IF i > Len(a) THEN TRUE
    ELSE IF i > Len(b) THEN FALSE
    ELSE LET x == CharRank(SubSeq(a, i, i), 1)
             y == CharRank(SubSeq(b, i, i), 1)
         IN  IF x < y THEN TRUE ELSE IF x > y THEN FALSE ELSE TextLeq(a, b, i + 1)

RECURSIVE FoldText(_)
FoldText(s) == IF s = "" THEN "" ELSE Fold(SubSeq(s, 1, 1)) \o FoldText(SubSeq(s, 2, Len(s)))

\* text LIKE '%sub%': a substring match that ignores ASCII case.
Like(text, sub) ==
    \E i \in 1..(Len(text) + 1) :
        /\ i + Len(sub) - 1 <= Len(text)
        /\ FoldText(SubSeq(text, i, i + Len(sub) - 1)) = FoldText(sub)

\* Python truthiness of an Optional[str].
Given(opt) == opt # None /\ opt[1] # ""

\* The WHERE clause get_all_media builds.
ListFilter(r, media_type, tag, date_from, date_to) ==
    /\ media_type # "all" => r.media_type = media_type
    /\ Given(tag) => Like(r.tags, tag[1])
    /\ Given(date_from) => TextLeq(date_from[1], r.processed_at, 1)
    /\ Given(date_to) => TextLeq(r.processed_at, date_to[1], 1)

\* The WHERE clause get_total_count builds.
CountFilter(r, media_type, tag) ==
    /\ media_type # "all" => r.media_type = media_type
    /\ Given(tag) => Like(r.tags, tag[1])

\* duration_sec as a sort key: NULL sorts below every number.
DurationKey(r) == IF r.duration_sec = None THEN -1 ELSE r.duration_sec[1]

\* Row i comes before row j under the ORDER BY of sort_by; equal keys come in
\* rowid order.
ComesBefore(videos, i, j, sort_by) ==
    LET a == videos[i]
        b == videos[j]
        lt == IF sort_by = "date_asc"
                THEN a.processed_at # b.processed_at /\ TextLeq(a.processed_at, b.processed_at, 1)
              ELSE IF sort_by = "duration_desc" THEN DurationKey(a) > DurationKey(b)
              ELSE IF sort_by = "duration_asc" THEN DurationKey(a) < DurationKey(b)
              ELSE a.processed_at # b.processed_at /\ TextLeq(b.processed_at, a.processed_at, 1)
        gt == IF sort_by = "date_asc"
                THEN a.processed_at # b.processed_at /\ TextLeq(b.processed_at, a.processed_at, 1)
              ELSE IF sort_by = "duration_desc" THEN DurationKey(a) < DurationKey(b)
              ELSE IF sort_by = "duration_asc" THEN DurationKey(a) > DurationKey(b)
              ELSE a.processed_at # b.processed_at /\ TextLeq(a.processed_at, b.processed_at, 1)
    IN  lt \/ (~gt /\ i < j)

Min(a, b) == IF a < b THEN a ELSE b

\* The records of one page, in order.
get_all_media(d, limit, offset, media_type, sort_by, tag, date_from, date_to) ==
    LET videos == d.videos
        hits == { i \in 1..Len(videos) :
                    ListFilter(videos[i], media_type, tag, date_from, date_to) }
        place(i) == Cardinality({ j \in hits : ComesBefore(videos, j, i, sort_by) }) + 1
        ordered == [k \in 1..Cardinality(hits) |->
                       videos[CHOOSE i \in hits : place(i) = k].metadata]
    IN  SubSeq(ordered, offset + 1, Min(offset + limit, Len(ordered)))

get_total_count(d, media_type, tag) ==
    Cardinality({ i \in 1..Len(d.videos) : CountFilter(d.videos[i], media_type, tag) })

\* A client that asks for page after page, from offset on, until a page is
\* empty: the number of records it has been given.
RECURSIVE paged_through(_, _, _, _, _, _, _, _)
paged_through(d, limit, offset, media_type, sort_by, tag, date_from, date_to) ==
    LET page == get_all_media(d, limit, offset, media_type, sort_by, tag, date_from, date_to)
    IN  IF page = <<>> THEN 0
        ELSE Len(page) + paged_through(d, limit, offset + limit, media_type, sort_by,
                                       tag, date_from, date_to)

\* GET /media on an initialised service: the page and the X-Total-Count header.
list_media(d, limit, offset, sort_by, tag, media_type, date_from, date_to) ==
    [items |-> get_all_media(d, limit, offset, media_type, sort_by, tag, date_from, date_to),
     total |-> get_total_count(d, media_type, tag)]

ListItems ==
    { Stamped(MediaItem(PathA, "SciFi", Some(AI1), None), Day1, 10),
      [Stamped(MediaItem(PathB, "Action", Some(AI2), None), Day2, 20)
          EXCEPT !.media_type = "image"],
      MediaItem(PathB, "Action", Some(AI1), None) }

Limits == {1, 2}
Offsets == {0, 1, 2}
MediaTypes == {"all", "video", "image"}
SortModes == {"date_asc", "date_desc", "duration_asc", "duration_desc"}
TagFilters == {None, Some("NAS")}
DateFilters == {None, Some("2025-01-01")}

ListUpsert == \E item \in ListItems : Call(item, None, "none")

\* One request is followed per behaviour: a listing leaves the store as it
\* is, so a second request sees nothing the first could not.
List ==
    /\ last_list = None
    /\ \E limit \in Limits, offset \in Offsets, sort_by \in SortModes, tag \in TagFilters,
          media_type \in MediaTypes, date_from \in DateFilters, date_to \in DateFilters :
          LET resp == list_media(db, limit, offset, sort_by, tag, media_type,
                                 date_from, date_to)
          IN  last_list' =
                Some([limit |-> limit, offset |-> offset, sort_by |-> sort_by, tag |-> tag,
                      media_type |-> media_type, date_from |-> date_from,
                      date_to |-> date_to,
                      rows |-> Len(db.videos),
                      items |-> [k \in 1..Len(resp.items) |-> resp.items[k].meta.path],
                      total |-> resp.total,
                      paged |-> paged_through(db, limit, 0, media_type, sort_by, tag,
                                              date_from, date_to)])
    /\ UNCHANGED <<store_vars, conc_vars, worker_vars, last_search, table, api_vars, aux_vars>>

ListNext == ListUpsert \/ List

\* The listing does not read the shadow table.
ListInit == StoreInit /\ has_fts

SpecList == ListInit /\ [][ListNext]_vars

Unfiltered(l) ==
    l.media_type = "all" /\ ~Given(l.tag) /\ ~Given(l.date_from) /\ ~Given(l.date_to)

(* C15: for every combination of media type, tag, date-from and date-to, the
   count sent as X-Total-Count equals the number of records the listing hands
   out when paged through all offsets; and without filters, on a store of N
   rows, limit N at offset 0 returns N records with total N, and limit N at
   offset N returns no record. *)
C15_TotalCountEqualsPagedTotal ==
    last_list # None =>
        LET l == last_list[1]
        IN  /\ l.total = l.paged
            /\ (Unfiltered(l) /\ l.limit = l.rows /\ l.offset = 0)
                  => Len(l.items) = l.rows /\ l.total = l.rows
            /\ (Unfiltered(l) /\ l.limit = l.rows /\ l.offset = l.rows)
                  => l.items = <<>>


----------------------------------------------------------------------------
(* Opening a database file written by an earlier version: _init_db and
   _migrate_schema on an existing videos table *)

\* Columns every version of the videos table has (those the shadow table copies).
BaseColumns == {"path", "filename", "tags", "summary", "description"}

\* The columns _migrate_schema adds when they are missing.
AddedColumns == {"parent_folder", "media_type", "transcription", "embedding"}

OldSearchColumns == {"path", "filename", "tags", "summary", "description"}
NewSearchColumns == OldSearchColumns \cup {"transcription"}

\* A row an earlier version wrote for path, with the columns its table had.
\* The nullable columns hold Optional values: None is NULL.
LegacyRow(path, columns) ==
    [c \in columns |->
        CASE c = "path" -> path
          [] c = "filename" -> basename(path)
          [] c = "tags" -> "legacy"
          [] c = "summary" -> "An old summary"
          [] c = "description" -> "An old description"
          [] c = "parent_folder" -> Some(basename(dirname(path)))
          [] c = "media_type" -> Some("image")
          [] c = "transcription" -> Some("hello moon")
          [] c = "embedding" -> Some(OneF \o ZeroF)]

LegacyPaths == { <<>>, <<PathA>>, <<PathB>>, <<PathA, PathB>> }

\* The database files found on disk: a videos table with the base columns and
\* any subset of the added ones, and no shadow table, an old one or a new one.
LegacyTables ==
    { [columns |-> BaseColumns \cup added,
       rows |-> [i \in 1..Len(ps) |-> LegacyRow(ps[i], BaseColumns \cup added)],
       search_columns |-> sc,
       search_rows |-> IF sc = {} THEN <<>> ELSE ps,
       opened |-> FALSE]
      : added \in SUBSET AddedColumns, ps \in LegacyPaths,
        sc \in { {}, OldSearchColumns, NewSearchColumns } }

\* ALTER TABLE videos ADD COLUMN col: the rows there get the column's default.
\* On a table that has the column the statement raises, which is logged.
_add_column(t, col_name, default) ==
    IF col_name \in t.columns THEN t
    ELSE [t EXCEPT !.columns = @ \cup {col_name},
                   !.rows = [i \in 1..Len(t.rows) |->
                               [c \in t.columns \cup {col_name} |->
                                   IF c = col_name THEN default ELSE t.rows[i][c]]]]

\* Step 5: a shadow table without transcription is dropped, created again and
\* filled from videos.
fix_fts_schema(t) ==
    IF t.search_columns # {} /\ "transcription" \notin t.search_columns
    THEN [t EXCEPT !.search_columns = NewSearchColumns,
                   !.search_rows = [i \in 1..Len(t.rows) |-> t.rows[i].path]]
    ELSE t

_migrate_schema(t) ==
    LET t1 == _add_column(t, "parent_folder", None)
        t2 == _add_column(t1, "media_type", Some("video"))
        t3 == _add_column(t2, "transcription", None)
        t4 == _add_column(t3, "embedding", None)
        t5 == fix_fts_schema(t4)
    IN  _add_column(t5, "embedding", None)

\* CREATE TABLE IF NOT EXISTS finds the table there; the shadow table is
\* created when there is none (FTS5 is available).
_init_db(t) ==
    LET m == _migrate_schema(t)
    IN  IF m.search_columns = {} THEN [m EXCEPT !.search_columns = NewSearchColumns]
        ELSE m

MigrateInit ==
    /\ th = [t \in {} |-> Idle]
    /\ WorkerIdle
    /\ NoReads
    /\ NoService
    /\ NoAux
    /\ table \in { Some(t) : t \in LegacyTables }
    /\ db = EmptyDB
    /\ db_committed = EmptyDB
    /\ vector_cache = EmptyCache
    /\ has_fts = FALSE
    /\ raised = FALSE
    /\ calls = 0
    /\ last_upsert = NoUpserts
    /\ last_fault = "none"

\* VideoDB(path) on the file: _init_db, then _load_vector_cache.
OpenStore ==
    /\ table # None
    /\ ~table[1].opened
    /\ LET t == _init_db(table[1])
       IN  /\ table' = Some([t EXCEPT !.opened = TRUE])
           /\ vector_cache' = _load_vector_cache(t.rows)
    /\ has_fts' = TRUE
    /\ UNCHANGED <<db, db_committed, raised, calls, last_upsert, last_fault>>
    /\ UNCHANGED <<conc_vars, worker_vars, read_vars, api_vars, aux_vars>>

\* The store is closed; the file stays as the migration left it.
CloseStore ==
    /\ table # None
    /\ table[1].opened
    /\ table' = Some([table[1] EXCEPT !.opened = FALSE])
    /\ vector_cache' = EmptyCache
    /\ has_fts' = FALSE
    /\ UNCHANGED <<db, db_committed, raised, calls, last_upsert, last_fault>>
    /\ UNCHANGED <<conc_vars, worker_vars, read_vars, api_vars, aux_vars>>

MigrateNext == OpenStore \/ CloseStore

SpecMigrate == MigrateInit /\ [][MigrateNext]_vars

(* C14: opening a store whose videos table lacks any subset of parent_folder,
   media_type, transcription and embedding leaves a table with all four
   columns, in which every row that was there keeps the values of the columns
   it had and has its parent_folder filled in from its path. *)
C14_MigrationAddsColumnsAndBackfills ==
    [][ (table # None /\ ~table[1].opened /\ table'[1].opened)
        => LET old == table[1]
               new == table'[1]
           IN  /\ AddedColumns \subseteq new.columns
               /\ Len(new.rows) = Len(old.rows)
               /\ \A i \in 1..Len(old.rows) :
                     /\ \A c \in old.columns : new.rows[i][c] = old.rows[i][c]
                     /\ new.rows[i]["parent_folder"]
                          = Some(basename(dirname(new.rows[i]["path"]))) ]_vars


----------------------------------------------------------------------------
(* The HTTP service: lifespan, exception handlers and the three endpoints,
   each request served by its own thread of the pool *)

MaxRequests == 2
ReqIds == 1..MaxRequests

MAX_CONCURRENT_JOBS == 1

TextPath == "/v/notes.txt"

\* The files on the server when the service starts.
ServerFiles == {PathA, TextPath}

\* Requests clients send. path is the body of POST /process (None: a body
\* without path), q and sort_by are query parameters.
Request(route, path, q, sort_by) ==
    [route |-> route, path |-> path, force_reprocess |-> FALSE, q |-> q, sort_by |-> sort_by]

Requests ==
    { Request("/process", Some(p), None, "date_desc") : p \in {PathA, PathB, TextPath} }
      \cup { Request("/process", None, None, "date_desc"),
             Request("/search", None, Some("moon"), "date_desc"),
             Request("/search", None, None, "date_desc"),
             Request("/media", None, None, "date_desc"),
             Request("/media", None, None, "newest"),
             Request("/nope", None, None, "date_desc") }

Routes == {"/process", "/search", "/media"}

\* The checks FastAPI makes from the signatures before it calls an endpoint:
\* ProcessRequest.path is required, q is required with min_length 1, sort_by
\* must match the pattern.
validates(req) ==
    CASE req.route = "/process" -> req.path # None
      [] req.route = "/search" -> req.q # None /\ Len(req.q[1]) >= 1
      [] req.route = "/media" -> req.sort_by \in SortModes
      [] OTHER -> TRUE

\* Exceptions, by class; detail is the text str(e) gives.
HTTPException(status_code, detail) ==
    [class |-> "fastapi.HTTPException", status_code |-> status_code, detail |-> detail]
StarletteHTTPException(status_code, detail) ==
    [class |-> "starlette.HTTPException", status_code |-> status_code, detail |-> detail]
RequestValidationError ==
    [class |-> "RequestValidationError", status_code |-> 422, detail |-> "validation errors"]
FileNotFoundError == [class |-> "FileNotFoundError", status_code |-> 0, detail |-> "File not found"]
ProcessingError(detail) == [class |-> "ProcessingError", status_code |-> 0, detail |-> detail]
AttributeError ==
    [class |-> "AttributeError", status_code |-> 0, detail |-> "'NoneType' object has no attribute"]

\* str(e) of an exception the endpoint caught.
str(exc) ==
    IF exc.class = "fastapi.HTTPException"
    THEN ToString(exc.status_code) \o ": " \o exc.detail
    ELSE exc.detail

\* The fields of schemas.ErrorResponse.
ProblemFields == {"type", "title", "status", "detail", "instance"}

\* The response to an exception that leaves an endpoint or the router. The
\* application registers handlers for Exception and for fastapi.HTTPException;
\* the router's own HTTPException and a RequestValidationError are classes for
\* which it registers none, so the framework's handlers answer them with a
\* body of the single field detail.
exception_response(exc) ==
    CASE exc.class = "fastapi.HTTPException" ->
            [status |-> exc.status_code, fields |-> ProblemFields, detail |-> exc.detail]
      [] exc.class = "starlette.HTTPException" ->
            [status |-> exc.status_code, fields |-> {"detail"}, detail |-> exc.detail]
      [] exc.class = "RequestValidationError" ->
            [status |-> 422, fields |-> {"detail"}, detail |-> exc.detail]
      [] OTHER -> [status |-> 500, fields |-> ProblemFields, detail |-> exc.detail]

\* The except clauses of process_media: FileNotFoundError becomes 404, every
\* other Exception, HTTPException included, becomes 500.
process_media_except(exc) ==
    IF exc.class = "FileNotFoundError" THEN HTTPException(404, "File not found")
    ELSE HTTPException(500, str(exc))

\* The first lines of the endpoints: the services the route needs are not set.
services_missing_never(route, d, p) == FALSE

services_missing(route, d, p) ==
    IF route = "/process" THEN ~p \/ ~d ELSE ~d

RECURSIVE LastDot(_, _)
LastDot(s, i) ==
    IF i = 0 THEN 0
    ELSE IF SubSeq(s, i, i) = "." THEN i ELSE LastDot(s, i - 1)

\* os.path.splitext(path)[1].lower()
ext_of(path) ==
    LET name == basename(path)
        i == LastDot(name, Len(name))
    IN  IF i <= 1 THEN "" ELSE FoldText(SubSeq(name, i, Len(name)))

ImageExts == {".jpg", ".jpeg", ".png", ".webp", ".bmp"}
VideoExts == {".mp4", ".mov", ".avi", ".mkv", ".webm"}

\* What process_file returns for a video it could process.
Processed(path) ==
    Stamped(MediaItem(path, basename(dirname(path)), Some(AI1), None), Day1, 10)

NoRequest ==
    [pc |-> "idle", req |-> Request("", None, None, ""), down |-> FALSE,
     absent |-> "no", unsupported |-> FALSE, response |-> None]

respond(r, resp) == [r EXCEPT !.pc = "done", !.response = Some(resp)]

ApiInit ==
    /\ th = [t \in {} |-> Idle]
    /\ WorkerIdle
    /\ NoReads
    /\ NoTable
    /\ NoAux
    /\ api_db = FALSE
    /\ api_processor = FALSE
    /\ fs = ServerFiles
    /\ reqs = [id \in ReqIds |-> NoRequest]
    /\ db = EmptyDB
    /\ db_committed = EmptyDB
    /\ vector_cache = EmptyCache
    /\ has_fts = TRUE
    /\ raised = FALSE
    /\ calls = 0
    /\ last_upsert = NoUpserts
    /\ last_fault = "none"

ApiFrame == UNCHANGED <<conc_vars, worker_vars, read_vars, table, aux_vars>>
StoreFrame == UNCHANGED store_vars

\* lifespan: db = VideoDB()
StartDb ==
    /\ ~api_db
    /\ api_db' = TRUE
    /\ UNCHANGED <<api_processor, fs, reqs>>
    /\ StoreFrame /\ ApiFrame

\* lifespan: processor = MediaProcessor(...)
StartProcessor ==
    /\ api_db /\ ~api_processor
    /\ api_processor' = TRUE
    /\ UNCHANGED <<api_db, fs, reqs>>
    /\ StoreFrame /\ ApiFrame

\* A file of the server is removed by someone else.
Unlink ==
    /\ \E p \in fs : fs' = fs \ {p}
    /\ UNCHANGED <<api_db, api_processor, reqs>>
    /\ StoreFrame /\ ApiFrame

ReqAt(id, pc) == reqs[id].pc = pc

ReqFrame == UNCHANGED <<api_db, api_processor, fs>>

\* A request arrives: routing, validation of the parameters, and the first
\* lines of the endpoint.
Receive(id) ==
    /\ ReqAt(id, "idle")
    /\ \E req \in Requests :
          LET r == [NoRequest EXCEPT !.req = req,
                       !.down = req.route \in Routes
                                  /\ (IF req.route = "/process"
                                      THEN ~api_processor \/ ~api_db ELSE ~api_db)]
          IN  reqs' = [reqs EXCEPT ![id] =
                 IF req.route \notin Routes
                   THEN respond(r, exception_response(StarletteHTTPException(404, "Not Found")))
                 ELSE IF ~validates(req)
                   THEN respond(r, exception_response(RequestValidationError))
                 ELSE IF services_missing(req.route, api_db, api_processor)
                   THEN respond(r, exception_response(HTTPException(503,
                                IF req.route = "/process" THEN "Services not initialized"
                                ELSE "DB not initialized")))
                 ELSE [r EXCEPT !.pc = "endpoint"]]
    /\ ReqFrame /\ StoreFrame /\ ApiFrame

\* process_media, in its try: db.get_media, then os.path.exists.
ProcessCheckExists(id) ==
    /\ ReqAt(id, "endpoint")
    /\ reqs[id].req.route = "/process"
    /\ LET r == reqs[id]
           path == r.req.path[1]
       IN  reqs' = [reqs EXCEPT ![id] =
              IF ~r.req.force_reprocess /\ ~api_db
                THEN respond(r, exception_response(process_media_except(AttributeError)))
              ELSE IF path \notin fs
                THEN respond([r EXCEPT !.absent = "endpoint"],
                             exception_response(process_media_except(
                                 HTTPException(404, "File not found on server"))))
              ELSE [r EXCEPT !.pc = "process_file"]]
    /\ ReqFrame /\ StoreFrame /\ ApiFrame

\* processor.process_file up to the classification by extension.
ProcessFileBegins(id) ==
    /\ ReqAt(id, "process_file")
    /\ LET r == reqs[id]
           path == r.req.path[1]
       IN  \E vlm_loads \in BOOLEAN :
             reqs' = [reqs EXCEPT ![id] =
                IF ~api_processor
                  THEN respond(r, exception_response(process_media_except(AttributeError)))
                ELSE IF path \notin fs
                  THEN respond([r EXCEPT !.absent = "processor"],
                               exception_response(process_media_except(FileNotFoundError)))
                ELSE IF ~vlm_loads
                  THEN respond(r, exception_response(process_media_except(
                                      ProcessingError("Failed to load AI Model"))))
                ELSE IF ext_of(path) \notin ImageExts \cup VideoExts
                  THEN respond([r EXCEPT !.unsupported = TRUE],
                               exception_response(process_media_except(
                                   ProcessingError("Unsupported file format: " \o ext_of(path)))))
                ELSE [r EXCEPT !.pc = "pipeline"]]
    /\ ReqFrame /\ StoreFrame /\ ApiFrame

\* Extraction, inference or embedding raises: a ProcessingError leaves process_file.
ProcessFileRaises(id) ==
    /\ ReqAt(id, "pipeline")
    /\ reqs' = [reqs EXCEPT ![id] =
                  respond(@, exception_response(process_media_except(
                                 ProcessingError("AI Inference Failed"))))]
    /\ ReqFrame /\ StoreFrame /\ ApiFrame

\* process_file returns (item, embedding_bytes).
ProcessFileReturns(id) ==
    /\ ReqAt(id, "pipeline")
    /\ reqs' = [reqs EXCEPT ![id].pc = "upsert"]
    /\ ReqFrame /\ StoreFrame /\ ApiFrame

\* db.upsert_media(item, embedding_bytes); return item
ProcessUpserts(id) ==
    /\ ReqAt(id, "upsert")
    /\ LET after == upsert_media(db, db_committed, vector_cache, has_fts,
                                 Processed(reqs[id].req.path[1]), Some(OneF \o ZeroF), "none")
       IN  /\ db' = after.db
           /\ db_committed' = after.db_committed
           /\ vector_cache' = after.vector_cache
           /\ raised' = after.raised
    /\ reqs' = [reqs EXCEPT ![id] = respond(@, [status |-> 200, fields |-> {"item"}, detail |-> ""])]
    /\ UNCHANGED <<has_fts, calls, last_upsert, last_fault>>
    /\ ReqFrame /\ ApiFrame

\* search_media (the endpoint), in its try.
SearchEndpoint(id) ==
    /\ ReqAt(id, "endpoint")
    /\ reqs[id].req.route = "/search"
    /\ reqs' = [reqs EXCEPT ![id] =
                  IF ~api_db
                  THEN respond(@, exception_response(HTTPException(500, str(AttributeError))))
                  ELSE respond(@, [status |-> 200, fields |-> {"results"}, detail |-> ""])]
    /\ ReqFrame /\ StoreFrame /\ ApiFrame

\* list_media, in its try.
ListEndpoint(id) ==
    /\ ReqAt(id, "endpoint")
    /\ reqs[id].req.route = "/media"
    /\ reqs' = [reqs EXCEPT ![id] =
                  IF ~api_db
                  THEN respond(@, exception_response(HTTPException(500, str(AttributeError))))
                  ELSE respond(@, [status |-> 200, fields |-> {"items"}, detail |-> ""])]
    /\ ReqFrame /\ StoreFrame /\ ApiFrame

RequestStep(id) ==
    \/ Receive(id)
    \/ ProcessCheckExists(id)
    \/ ProcessFileBegins(id)
    \/ ProcessFileRaises(id)
    \/ ProcessFileReturns(id)
    \/ ProcessUpserts(id)
    \/ SearchEndpoint(id)
    \/ ListEndpoint(id)

ApiNext == StartDb \/ StartProcessor \/ Unlink \/ \E id \in ReqIds : RequestStep(id)

SpecApi == ApiInit /\ [][ApiNext]_vars


Answered(id) == reqs[id].response # None

Status(id) == reqs[id].response[1].status

(* C16: a POST /process whose path was found missing, by the endpoint's own
   check or by the processor, is answered with status 404. *)
C16_MissingFileAnswered404 ==
    \A id \in ReqIds :
        (Answered(id) /\ reqs[id].absent # "no") => Status(id) = 404

(* C17: every response with an error status, whatever raised it, has exactly
   the problem-details fields type, title, status, detail and instance. *)
C17_ErrorsAreProblemDetails ==
    \A id \in ReqIds :
        (Answered(id) /\ Status(id) >= 400) => reqs[id].response[1].fields = ProblemFields

(* C18: a POST /process for a file that exists and whose extension is neither
   a video nor an image extension is answered with status 400. *)
C18_UnsupportedExtensionAnswered400 ==
    \A id \in ReqIds :
        (Answered(id) /\ reqs[id].unsupported) => Status(id) = 400

(* C19 as stated: a request to /process, /search or /media that arrives while
   the service it needs is not set is answered with 503 and nothing else. *)
C19_UninitialisedAnswered503 ==
    \A id \in ReqIds :
        (Answered(id) /\ reqs[id].down) => Status(id) = 503

(* C19: a request to /process, /search or /media that passes the validation
   of its parameters and arrives while the service it needs is not set is
   answered with 503, from the first lines of the endpoint; a request that
   fails validation is answered with 422 before the endpoint is called. *)
C19_ValidUninitialisedAnswered503 ==
    \A id \in ReqIds :
        (Answered(id) /\ reqs[id].down) =>
            IF validates(reqs[id].req) THEN Status(id) = 503 ELSE Status(id) = 422

C19_Witness ==
    \E id \in ReqIds :
        /\ Answered(id) /\ reqs[id].down /\ validates(reqs[id].req)
        /\ reqs[id].req.route = "/process" /\ api_db /\ ~api_processor
        /\ Status(id) = 503

\* The requests that are inside processor.process_file, past the classification.
InPipeline == { id \in ReqIds : reqs[id].pc = "pipeline" }

(* C20: of the POST /process requests being served, at most
   MAX_CONCURRENT_JOBS are inside the processing pipeline at any time. *)
C20_AtMostOneInPipeline == Cardinality(InPipeline) <= MAX_CONCURRENT_JOBS


----------------------------------------------------------------------------
(* Legacy import: migrate_jsonl over the log files of a folder, line by line *)

MaxRuns == 2

\* The JSON object of a line that serialises a typed record (model_dump_json).
UnifiedRecord(p) ==
    [media_type |-> "image",
     meta |-> [filename |-> basename(p), path |-> p, size_mb |-> "1.5",
               parent_folder |-> basename(dirname(p))],
     ai |-> [description |-> AI1.description, summary |-> AI1.summary, tags |-> AI1.tags],
     system |-> [model_name |-> "SmolVLM", timestamp |-> Day1]]

\* The JSON object the tagging engine wrote for a video: meta with file, path,
\* size and the video fields, ai, and system with model.
FlatRecord(p) ==
    [meta |-> [file |-> basename(p), path |-> p, size_mb |-> "1.5", duration |-> "10"],
     ai |-> [summary |-> AI2.summary, description |-> AI2.description, tags |-> AI2.tags],
     system |-> [model |-> "smolvlm.gguf", timestamp |-> "2024-01-01 00:00:00"]]

\* A typed record but for its system block, which is the older one.
OldSystemRecord(p) == [UnifiedRecord(p) EXCEPT !.system = FlatRecord(p).system]

\* A line of a log file: whether its bytes decode as UTF-8, and what
\* json.loads makes of its text (None: it raises).
Line(decodes, blank, json) == [decodes |-> decodes, blank |-> blank, json |-> json]

UnifiedLine(p) == Line(TRUE, FALSE, Some(UnifiedRecord(p)))
FlatLine(p) == Line(TRUE, FALSE, Some(FlatRecord(p)))
OldSystemLine(p) == Line(TRUE, FALSE, Some(OldSystemRecord(p)))
GarbageLine == Line(TRUE, FALSE, None)
BlankLine == Line(TRUE, TRUE, None)
UndecodableLine == Line(FALSE, FALSE, None)

\* dict.get(key, {})
get(record, key) == IF key \in DOMAIN record THEN record[key] ELSE [k \in {} |-> ""]

\* The required fields of the pydantic models; other keys are ignored.
MediaMetadataValid(meta) == {"filename", "path", "size_mb", "parent_folder"} \subseteq DOMAIN meta
AIResponseValid(ai) == {"description", "summary"} \subseteq DOMAIN ai
SystemInfoValid(system) == "model_name" \in DOMAIN system

\* MediaItem(**record) does not raise.
MediaItemValid(record) ==
    /\ "meta" \in DOMAIN record /\ MediaMetadataValid(record.meta)
    /\ "ai" \in DOMAIN record => AIResponseValid(record.ai)
    /\ "system" \in DOMAIN record => SystemInfoValid(record.system)
    /\ "media_type" \in DOMAIN record => record.media_type \in {"video", "image", "unknown"}

\* The typed record built from a JSON object whose meta (and ai, if any) are valid.
ItemOf(record, media_type, with_system) ==
    [MediaItem(record.meta.path, record.meta.parent_folder,
               IF "ai" \in DOMAIN record
               THEN Some([tags |-> record.ai.tags, summary |-> record.ai.summary,
                          description |-> record.ai.description])
               ELSE None,
               None)
       EXCEPT !.media_type = media_type,
              !.system = IF with_system /\ "system" \in DOMAIN record
                         THEN Some([timestamp |-> record.system.timestamp]) ELSE None]

\* The adaptation of a parsed line: the typed record, else the best-effort
\* video record, else None (the constructor raises and the line is skipped).
adapt(record) ==
    IF MediaItemValid(record)
    THEN Some(ItemOf(record,
                     IF "media_type" \in DOMAIN record THEN record.media_type ELSE "unknown",
                     TRUE))
    ELSE IF MediaMetadataValid(get(record, "meta")) /\ AIResponseValid(get(record, "ai"))
    THEN Some(ItemOf(record, "video", FALSE))
    ELSE None

RECURSIVE FindText(_, _, _)
\* The least position >= i at which sub occurs in text, 0 if none.
FindText(text, sub, i) ==
    IF i + Len(sub) - 1 > Len(text) THEN 0
    ELSE IF SubSeq(text, i, i + Len(sub) - 1) = sub THEN i
    ELSE FindText(text, sub, i + 1)

\* Path.glob("*_video_tags_*.jsonl") matches the name.
glob_matches(name) ==
    LET i == FindText(name, "_video_tags_", 1)
    IN  /\ i > 0
        /\ Len(name) >= i + 12 + 6 - 1
        /\ SubSeq(name, Len(name) - 5, Len(name)) = ".jsonl"

\* file.with_suffix('.jsonl.bak'): the last suffix of the name is replaced.
with_suffix_bak(name) ==
    LET i == LastDot(name, Len(name))
    IN  (IF i <= 1 THEN name ELSE SubSeq(name, 1, i - 1)) \o ".jsonl.bak"

Log1 == "m_video_tags_1.jsonl"
Log2 == "m_video_tags_2.jsonl"
OtherFile == "notes.jsonl"

LogContents ==
    { <<UnifiedLine(PathA)>>,
      <<GarbageLine, BlankLine, UnifiedLine(PathA)>>,
      <<FlatLine(PathB)>>,
      <<OldSystemLine(PathB), GarbageLine>>,
      <<UnifiedLine(PathA), UndecodableLine, UnifiedLine(PathB)>> }

\* The folders the import is run on: two logs and a file the pattern leaves out.
Folders ==
    { [name \in {Log1, Log2, OtherFile} |->
          IF name = Log1 THEN l1 ELSE IF name = Log2 THEN l2 ELSE <<UnifiedLine(PathB)>>]
      : l1 \in LogContents, l2 \in LogContents }

\* Nothing of any file has been read.
NoReadsOf(files) == [name \in DOMAIN files |-> [i \in 1..Len(files[name]) |-> 0]]

ImportInit ==
    /\ th = [t \in {} |-> Idle]
    /\ WorkerIdle
    /\ NoReads
    /\ NoTable
    /\ NoService
    /\ tagger = <<>> /\ vlm = <<>> /\ gallery = <<>>
    /\ \E files \in Folders :
          folder = Some([files |-> files, origin |-> [name \in DOMAIN files |-> name],
                         pc |-> "idle", todo |-> {}, cur |-> "", pos |-> 0,
                         reads |-> NoReadsOf(files), ended |-> {}, runs |-> 0])
    /\ db = EmptyDB
    /\ db_committed = EmptyDB
    /\ vector_cache = EmptyCache
    /\ has_fts = TRUE
    /\ raised = FALSE
    /\ calls = 0
    /\ last_upsert = NoUpserts
    /\ last_fault = "none"

ImportFrame ==
    UNCHANGED <<conc_vars, worker_vars, read_vars, table, api_vars, tagger, vlm, gallery>>

\* migrate_jsonl(folder_path) is called: the glob finds the matching files.
ImportBegins ==
    /\ folder # None /\ folder[1].pc = "idle"
    /\ folder[1].runs < MaxRuns
    /\ folder' = Some([folder[1] EXCEPT
                          !.pc = "files",
                          !.todo = { name \in DOMAIN folder[1].files : glob_matches(name) },
                          !.runs = @ + 1])
    /\ UNCHANGED store_vars /\ ImportFrame

\* The for loop over the files takes the next file and opens it.
ImportOpens ==
    /\ folder # None /\ folder[1].pc = "files"
    /\ \E name \in DOMAIN folder[1].files :
          /\ name \in folder[1].todo
          /\ folder' = Some([folder[1] EXCEPT !.pc = "lines", !.cur = name, !.pos = 1,
                                              !.todo = @ \ {name}])
    /\ UNCHANGED store_vars /\ ImportFrame

Cur == folder[1].files[folder[1].cur]

\* The origin of the file being read: the name it had when the folder was found.
CurOrigin == folder[1].origin[folder[1].cur]

\* `for line in f` hands out a line that decodes, and the body of the loop runs
\* on it: blank lines are passed over, a line json.loads or the constructors
\* reject is logged, every other line is upserted.
ImportLine ==
    /\ folder # None /\ folder[1].pc = "lines"
    /\ folder[1].pos <= Len(Cur)
    /\ Cur[folder[1].pos].decodes
    /\ LET line == Cur[folder[1].pos]
           item == IF line.blank \/ line.json = None THEN None ELSE adapt(line.json[1])
           after == IF item = None
                    THEN [db |-> db, db_committed |-> db_committed,
                          vector_cache |-> vector_cache, raised |-> FALSE]
                    ELSE upsert_media(db, db_committed, vector_cache, has_fts,
                                      item[1], None, "none")
       IN  /\ db' = after.db
           /\ db_committed' = after.db_committed
           /\ vector_cache' = after.vector_cache
           /\ raised' = after.raised
    /\ folder' = Some([folder[1] EXCEPT !.pos = @ + 1,
                                        !.reads[CurOrigin][folder[1].pos] = @ + 1])
    /\ UNCHANGED <<has_fts, calls, last_upsert, last_fault>>
    /\ ImportFrame

\* The file's text layer decodes a buffer that holds a line that is not UTF-8:
\* UnicodeDecodeError leaves the for statement, past the handler of the lines,
\* and the handler of the file logs it. The file keeps its name.
ImportReadRaises ==
    /\ folder # None /\ folder[1].pc = "lines"
    /\ \E i \in folder[1].pos..Len(Cur) : ~Cur[i].decodes
    /\ folder' = Some([folder[1] EXCEPT !.pc = "files", !.cur = "",
                                        !.ended = @ \cup {CurOrigin}])
    /\ UNCHANGED store_vars /\ ImportFrame

\* After the last line: file.rename(file.with_suffix('.jsonl.bak')).
ImportRenames ==
    /\ folder # None /\ folder[1].pc = "lines"
    /\ folder[1].pos > Len(Cur)
    /\ LET f == folder[1]
           bak == with_suffix_bak(f.cur)
           names == (DOMAIN f.files \ {f.cur}) \cup {bak}
       IN  folder' = Some([f EXCEPT
                 !.files = [name \in names |-> IF name = bak THEN f.files[f.cur]
                                               ELSE f.files[name]],
                 !.origin = [name \in names |-> IF name = bak THEN f.origin[f.cur]
                                                ELSE f.origin[name]],
                 !.pc = "files", !.cur = "",
                 !.ended = @ \cup {CurOrigin}])
    /\ UNCHANGED store_vars /\ ImportFrame

\* The glob is exhausted: migrate_jsonl returns.
ImportReturns ==
    /\ folder # None /\ folder[1].pc = "files"
    /\ folder[1].todo = {}
    /\ folder' = Some([folder[1] EXCEPT !.pc = "idle"])
    /\ UNCHANGED store_vars /\ ImportFrame

ImportNext ==
    \/ ImportBegins \/ ImportOpens \/ ImportLine \/ ImportReadRaises
    \/ ImportRenames \/ ImportReturns

SpecImport == ImportInit /\ [][ImportNext]_vars


\* The log files that have been renamed.
Renamed == { name \in DOMAIN folder[1].files : folder[1].origin[name] # name }

\* C21: over any number of import runs each matching log is consumed to its
\* end exactly once: no line is read twice, the import of a file never ends
\* before its last line was read (a malformed line does not stop the lines
\* after it), a file is renamed only after its last line was read, and a
\* renamed file is not among the files a run works on.
C21_EachLogConsumedOnce ==
    folder # None =>
        LET f == folder[1]
        IN  /\ \A name \in DOMAIN f.reads : \A i \in DOMAIN f.reads[name] :
                  f.reads[name][i] <= 1
            /\ \A name \in f.ended : \A i \in DOMAIN f.reads[name] :
                  f.reads[name][i] = 1
            /\ \A name \in Renamed : \A i \in DOMAIN f.reads[f.origin[name]] :
                  f.reads[f.origin[name]][i] >= 1
            /\ \A name \in Renamed : name \notin f.todo /\ name # f.cur

\* C22: once a log has been renamed, every line of it that has the flat shape
\* the tagging engine wrote has a row for its path, with media type video.
C22_FlatLinesImported ==
    folder # None =>
        \A name \in Renamed : \A i \in DOMAIN folder[1].files[name] : \A p \in Paths :
            folder[1].files[name][i] = FlatLine(p) =>
                \E r \in 1..Len(db.videos) :
                    db.videos[r].path = p /\ db.videos[r].media_type = "video"


----------------------------------------------------------------------------
(* VideoTagger.prepare(): model download, integrity verification, engine load *)

MaxPrepares == 2

\* config.filename and config.mmproj, in the order the download loop takes them.
ModelFiles == <<"model", "mmproj">>

\* What is at a path: nothing, the bytes whose SHA-256 is the expected one, or others.
Contents == {"absent", "good", "bad"}

\* What hf_hub_download does for a file that is not there: it leaves the
\* expected bytes, other bytes, or raises.
Downloads == {"good", "bad", "raises"}

\* _verify_file(path, expected_hash): False for a missing file, for a hash
\* mismatch and for a read that raises.
_verify_file_trusting(content, readable) == content # "absent"
_verify_file(content, readable) == content # "absent" /\ readable /\ content = "good"

TaggerInit ==
    /\ th = [t \in {} |-> Idle]
    /\ WorkerIdle
    /\ NoReads
    /\ NoTable
    /\ NoService
    /\ folder = <<>> /\ vlm = <<>> /\ gallery = <<>>
    /\ \E model \in Contents, mmproj \in Contents :
          tagger = Some([disk |-> [f \in {"model", "mmproj"} |->
                                      IF f = "model" THEN model ELSE mmproj],
                         pc |-> "idle", unsafe |-> FALSE, i |-> 0,
                         valid |-> {}, hashed |-> {}, deleted |-> {}, rejected |-> {},
                         loaded |-> FALSE, prepares |-> 0])
    /\ db = EmptyDB
    /\ db_committed = EmptyDB
    /\ vector_cache = EmptyCache
    /\ has_fts = TRUE
    /\ raised = FALSE
    /\ calls = 0
    /\ last_upsert = NoUpserts
    /\ last_fault = "none"

TaggerFrame ==
    UNCHANGED <<store_vars, conc_vars, worker_vars, read_vars, table, api_vars,
                folder, vlm, gallery>>

\* A VideoTagger is constructed, safe or unsafe, and prepare() is called: by
\* the next job, or by the program started again after sys.exit(1).
PrepareBegins ==
    /\ tagger # None /\ tagger[1].pc \in {"idle", "exited"}
    /\ tagger[1].prepares < MaxPrepares
    /\ \E unsafe \in BOOLEAN :
          tagger' = Some([tagger[1] EXCEPT
                             !.pc = IF unsafe THEN "unsafe" ELSE "verify",
                             !.unsafe = unsafe, !.i = 0, !.valid = {}, !.hashed = {},
                             !.deleted = {}, !.rejected = {}, !.loaded = FALSE,
                             !.prepares = @ + 1])
    /\ TaggerFrame

\* Unsafe mode: hf_hub_download for both files, nothing else; a raise exits.
UnsafeDownloads ==
    /\ tagger # None /\ tagger[1].pc = "unsafe"
    /\ \E got \in [{"model", "mmproj"} -> Downloads] :
          LET t == tagger[1]
              missing == { f \in {"model", "mmproj"} : t.disk[f] = "absent" }
              \* the loop stops at the first download that raises
              upto == IF "model" \in missing /\ got["model"] = "raises" THEN {}
                      ELSE IF "mmproj" \in missing /\ got["mmproj"] = "raises"
                      THEN {"model"} ELSE {"model", "mmproj"}
          IN  /\ \A f \in {"model", "mmproj"} : f \notin missing => got[f] = "good"
              /\ tagger' = Some([t EXCEPT
                    !.disk = [f \in {"model", "mmproj"} |->
                                 IF f \in missing /\ f \in upto THEN got[f] ELSE t.disk[f]],
                    !.pc = IF upto = {"model", "mmproj"} THEN "load" ELSE "exited"])
    /\ TaggerFrame

\* Step 1: both files are verified where they are.
VerifiesExisting ==
    /\ tagger # None /\ tagger[1].pc = "verify"
    /\ \E readable \in [{"model", "mmproj"} -> BOOLEAN] :
          LET t == tagger[1]
              valid == { f \in {"model", "mmproj"} : _verify_file(t.disk[f], readable[f]) }
              there == { f \in {"model", "mmproj"} : t.disk[f] # "absent" }
          IN  /\ \A f \in {"model", "mmproj"} : t.disk[f] = "absent" => readable[f]
              /\ tagger' = Some([t EXCEPT
                    !.valid = valid, !.hashed = there, !.rejected = there \ valid,
                    !.pc = IF valid = {"model", "mmproj"} THEN "load" ELSE "delete"])
    /\ TaggerFrame

\* Step 2: the files that are there and did not verify are removed.
DeletesInvalid ==
    /\ tagger # None /\ tagger[1].pc = "delete"
    /\ LET t == tagger[1]
           gone == { f \in {"model", "mmproj"} : t.disk[f] # "absent" /\ f \notin t.valid }
       IN  tagger' = Some([t EXCEPT
                 !.disk = [f \in {"model", "mmproj"} |->
                              IF f \in gone THEN "absent" ELSE t.disk[f]],
                 !.deleted = @ \cup gone, !.rejected = @ \ gone,
                 !.pc = "fetch", !.i = 1])
    /\ TaggerFrame

\* Step 3, one turn of the loop for a file that is on disk: nothing is done.
KeepsExisting ==
    /\ tagger # None /\ tagger[1].pc = "fetch"
    /\ tagger[1].i <= Len(ModelFiles)
    /\ tagger[1].disk[ModelFiles[tagger[1].i]] # "absent"
    /\ tagger' = Some([tagger[1] EXCEPT !.i = @ + 1])
    /\ TaggerFrame

\* Step 3, one turn of the loop for a missing file: it is downloaded and
\* verified at once; a mismatch removes it and exits, and so does a raise.
DownloadsAndVerifies ==
    /\ tagger # None /\ tagger[1].pc = "fetch"
    /\ tagger[1].i <= Len(ModelFiles)
    /\ tagger[1].disk[ModelFiles[tagger[1].i]] = "absent"
    /\ \E got \in Downloads, readable \in BOOLEAN :
          LET t == tagger[1]
              f == ModelFiles[t.i]
              ok == got # "raises" /\ _verify_file(got, readable)
          IN  /\ got = "raises" => readable
              /\ tagger' = Some([t EXCEPT
                    !.disk[f] = IF ok THEN got ELSE "absent",
                    !.valid = IF ok THEN @ \cup {f} ELSE @,
                    !.hashed = IF got # "raises" THEN @ \cup {f} ELSE @,
                    !.deleted = IF got # "raises" /\ ~ok THEN @ \cup {f} ELSE @,
                    !.i = IF ok THEN @ + 1 ELSE @,
                    !.pc = IF ok THEN "fetch" ELSE "exited"])
    /\ TaggerFrame

\* The loop is over: _download_models returns.
DownloadsComplete ==
    /\ tagger # None /\ tagger[1].pc = "fetch"
    /\ tagger[1].i > Len(ModelFiles)
    /\ tagger' = Some([tagger[1] EXCEPT !.pc = "load"])
    /\ TaggerFrame

\* _load_engine(): the engine is built from the two files; prepare() returns.
LoadsEngine ==
    /\ tagger # None /\ tagger[1].pc = "load"
    /\ tagger' = Some([tagger[1] EXCEPT !.loaded = TRUE, !.pc = "idle"])
    /\ TaggerFrame

TaggerNext ==
    \/ PrepareBegins \/ UnsafeDownloads \/ VerifiesExisting \/ DeletesInvalid
    \/ KeepsExisting \/ DownloadsAndVerifies \/ DownloadsComplete \/ LoadsEngine

SpecTagger == TaggerInit /\ [][TaggerNext]_vars

----------------------------------------------------------------------------
(* The scalar columns of a row against the record in its metadata column *)

\* C24: after any sequence of upserts the scalar columns of every row are
\* those of the record serialized in the row's metadata column: an upsert on
\* an existing path gives every column the new record's value.
C24_ColumnsAgreeWithMetadata ==
    \A i \in 1..Len(db.videos) :
        LET row == db.videos[i]
        IN  /\ row.filename = row.metadata.meta.filename
            /\ row.duration_sec = row.metadata.meta.duration_sec
            /\ row.parent_folder = row.metadata.meta.parent_folder
            /\ row.media_type = row.metadata.media_type


----------------------------------------------------------------------------
(* The progress messages of a job that is never stopped *)

IsProgress(m) == m.sig = PROGRESS

\* The PROGRESS messages a job thread has put, in the order it put them.
ProgressPuts(job) == SelectSeq(job.puts, IsProgress)

\* The job's preparation succeeded, its scan found files, and stop() was not
\* called while it ran.
RunsUnstopped(job) == job.files # <<>> /\ ~job.stopped

\* C25: a job whose preparation succeeded, whose scan found N >= 1 files and
\* that is never stopped puts exactly one PROGRESS message per scanned file,
\* in listing order, with current = 1..N and total = N, and when its thread
\* ends DONE is the last message it put, after all N of them, whatever each
\* file's outcome (a result, a reported error, a raised exception, a skip).
C25_OneProgressPerFileThenDone ==
    \A j \in DOMAIN jobs :
        RunsUnstopped(jobs[j]) =>
            LET job == jobs[j]
                prog == ProgressPuts(job)
                N == Len(job.files)
            IN  /\ Len(prog) <= N
                /\ \A i \in 1..Len(prog) :
                      /\ prog[i].cur = i
                      /\ prog[i].total = N
                      /\ prog[i].text \in {basename(job.files[i]),
                                           "Skipping " \o basename(job.files[i])}
                /\ job.pc \in {"finally", "dead"} =>
                      /\ Len(prog) = N
                      /\ job.puts[Len(job.puts)].sig = DONE
                      /\ \A k \in 1..(Len(job.puts) - 1) : job.puts[k].sig \notin Terminal

\* A job that ran unstopped over two files, the first giving a result and the
\* second raising, and that ended.
C25_Witness ==
    \E j \in DOMAIN jobs :
        /\ jobs[j].pc = "dead"
        /\ RunsUnstopped(jobs[j])
        /\ jobs[j].files = <<PathA, PathB>>
        /\ jobs[j].called = {PathA, PathB}
        /\ jobs[j].returned_ok = {PathA}
        /\ jobs[j].exc = "Processing failed for b.mp4"
        /\ Len(ProgressPuts(jobs[j])) = 2


\* The job's last message is DONE.
EndedWithDone(job) ==
    /\ job.pc \in {"finally", "dead"}
    /\ job.puts # <<>>
    /\ job.puts[Len(job.puts)].sig = DONE

Leftovers(j) ==
    { i \in 1..Len(queue) :
        \/ queue[i].job \notin {0, j}
        \/ queue[i].job = 0 /\ ~jobs[j].stopped }

\* C29: when a new job starts the queue holds no message of an earlier job or
\* of an earlier stop(), so the monitor never takes such a message from the
\* queue while a later job is running.
C29_QueueCleanAtJobStart ==
    /\ \A j \in DOMAIN jobs : jobs[j].pc = "begin" => Leftovers(j) = {}
    /\ mon_pc = "drain" /\ thread # 0 /\ is_alive(jobs, thread) => Leftovers(thread) = {}


----------------------------------------------------------------------------
(* MediaProcessor: the lazily loaded VLM under concurrent process_file calls *)

MaxWorkers == 3

\* The threads that call process_file on the one shared processor.
Callers == 1..MaxWorkers

\* self.llm is None (0) or the n-th Llama instance constructed (n >= 1).
VlmInit ==
    /\ th = [t \in {} |-> Idle]
    /\ WorkerIdle
    /\ NoReads
    /\ NoTable
    /\ NoService
    /\ folder = <<>> /\ tagger = <<>> /\ gallery = <<>>
    /\ vlm = Some([llm |-> 0, constructed |-> 0,
                   pc |-> [t \in Callers |-> "idle"],
                   used |-> [t \in Callers |-> 0],
                   failed |-> [t \in Callers |-> FALSE]])
    /\ has_fts = TRUE
    /\ db = EmptyDB
    /\ db_committed = EmptyDB
    /\ vector_cache = EmptyCache
    /\ raised = FALSE
    /\ calls = 0
    /\ last_upsert = NoUpserts
    /\ last_fault = "none"

VlmFrame ==
    UNCHANGED <<store_vars, conc_vars, worker_vars, read_vars, table, api_vars,
                folder, tagger, gallery>>

\* process_file(path) is called for a file that exists.
ProcessFileCalled ==
    \E t \in Callers :
        /\ vlm # None /\ vlm[1].pc[t] = "idle"
        /\ vlm' = Some([vlm[1] EXCEPT !.pc[t] = "load_vlm", !.used[t] = 0,
                                      !.failed[t] = FALSE])
        /\ VlmFrame

\* load_vlm: `if self.llm: return`.
LoadVlmChecks ==
    \E t \in Callers :
        /\ vlm # None /\ vlm[1].pc[t] = "load_vlm"
        /\ vlm' = Some([vlm[1] EXCEPT !.pc[t] = IF vlm[1].llm # 0 THEN "pipeline"
                                                ELSE "construct"])
        /\ VlmFrame

\* load_vlm: Llama(...) is constructed and assigned to self.llm.
LoadVlmConstructs ==
    \E t \in Callers :
        /\ vlm # None /\ vlm[1].pc[t] = "construct"
        /\ vlm' = Some([vlm[1] EXCEPT !.constructed = @ + 1, !.llm = vlm[1].constructed + 1,
                                      !.pc[t] = "pipeline"])
        /\ VlmFrame

\* load_vlm: the construction raises; process_file raises ProcessingError.
LoadVlmRaises ==
    \E t \in Callers :
        /\ vlm # None /\ vlm[1].pc[t] = "construct"
        /\ vlm' = Some([vlm[1] EXCEPT !.pc[t] = "idle", !.failed[t] = TRUE])
        /\ VlmFrame

\* _run_vlm_inference: self.llm.create_chat_completion(...); the call returns.
RunVlmInference ==
    \E t \in Callers :
        /\ vlm # None /\ vlm[1].pc[t] = "pipeline"
        /\ vlm' = Some([vlm[1] EXCEPT !.used[t] = vlm[1].llm, !.pc[t] = "idle"])
        /\ VlmFrame

VlmNext ==
    \/ ProcessFileCalled \/ LoadVlmChecks \/ LoadVlmConstructs \/ LoadVlmRaises
    \/ RunVlmInference

SpecVlm == VlmInit /\ [][VlmNext]_vars

\* C27: however concurrent process_file calls on one processor interleave,
\* the VLM is constructed at most once, not before the first call, and every
\* call runs its inference on that one instance.
C27_VlmConstructedOnce ==
    vlm # None =>
        /\ vlm[1].constructed <= 1
        /\ (\A t \in Callers : vlm[1].pc[t] = "idle" /\ vlm[1].used[t] = 0
                               /\ ~vlm[1].failed[t])
              => vlm[1].constructed = 0 /\ vlm[1].llm = 0
        /\ \A t \in Callers : vlm[1].used[t] \in {0, 1}


----------------------------------------------------------------------------
(* The gallery: its page index under the previous/next buttons and the filter *)

PAGE_SIZE == 50
MaxRows == 110

\* The parent folders of the store's rows, and the batches by which jobs add rows.
GalleryFolders == {"SciFi", "Action"}
Batches == {30, 50}
SearchTexts == {"", "moon"}

\* The rows get_all_videos(limit, offset, folder_filter) returns, as a number:
\* those of the folder ("All": of every folder) from offset on, limit at most.
get_all_videos(rows, limit, offset, folder_filter) ==
    LET count == IF folder_filter = "All" THEN rows["SciFi"] + rows["Action"]
                 ELSE rows[folder_filter]
        rest == IF count > offset THEN count - offset ELSE 0
    IN  IF rest > limit THEN limit ELSE rest

\* The rows search_videos(q) returns, as a number: a search is not paginated.
search_videos(rows, q) == IF rows["SciFi"] > 0 THEN 1 ELSE 0

\* The callback of the folder selectbox: without it the page stays where it is.
reset_page_missing(gallery_page) == gallery_page
reset_page(gallery_page) == 0

\* One run of render_gallery over session state g: the rows it fetched and the
\* buttons it drew (none while searching, none under the empty-library warning).
render(g) ==
    LET is_search == g.search_q # ""
        videos == IF is_search THEN search_videos(g.rows, g.search_q)
                  ELSE get_all_videos(g.rows, PAGE_SIZE, g.gallery_page * PAGE_SIZE,
                                      g.selected_folder)
        controls == ~(videos = 0 /\ g.gallery_page = 0) /\ ~is_search
    IN  [g EXCEPT !.videos = videos,
                  !.prev_enabled = controls /\ g.gallery_page # 0,
                  !.next_enabled = controls /\ ~(videos < PAGE_SIZE)]

GalleryInit ==
    /\ th = [t \in {} |-> Idle]
    /\ WorkerIdle
    /\ NoReads
    /\ NoTable
    /\ NoService
    /\ folder = <<>> /\ tagger = <<>> /\ vlm = <<>>
    /\ gallery = Some(render([gallery_page |-> 0, selected_folder |-> "All", search_q |-> "",
                              rows |-> [f \in GalleryFolders |-> 0],
                              videos |-> 0, prev_enabled |-> FALSE, next_enabled |-> FALSE,
                              last |-> "", was |-> 0]))
    /\ db = EmptyDB
    /\ db_committed = EmptyDB
    /\ vector_cache = EmptyCache
    /\ has_fts = TRUE
    /\ raised = FALSE
    /\ calls = 0
    /\ last_upsert = NoUpserts
    /\ last_fault = "none"

GalleryFrame ==
    UNCHANGED <<store_vars, conc_vars, worker_vars, read_vars, table, api_vars,
                folder, tagger, vlm>>

\* A job adds rows to the store; the page on screen is not drawn again.
RowsAdded ==
    /\ gallery # None
    /\ \E f \in GalleryFolders, n \in Batches :
          /\ gallery[1].rows[f] + n <= MaxRows
          /\ gallery' = Some([gallery[1] EXCEPT !.rows[f] = @ + n, !.last = "rows"])
    /\ GalleryFrame

\* The user clicks the next button the last run drew enabled: the script runs,
\* fetches the page again, finds the button clicked, adds one and reruns.
ClickNext ==
    /\ gallery # None /\ gallery[1].next_enabled
    /\ LET g == render(gallery[1])
       IN  gallery' = Some(render([g EXCEPT !.gallery_page = @ + 1,
                                            !.last = "next", !.was = g.videos]))
    /\ GalleryFrame

\* The same for the previous button.
ClickPrev ==
    /\ gallery # None /\ gallery[1].prev_enabled
    /\ LET g == render(gallery[1])
       IN  gallery' = Some(render([g EXCEPT !.gallery_page = @ - 1,
                                            !.last = "prev", !.was = g.gallery_page]))
    /\ GalleryFrame

\* The user picks another folder: reset_page runs, then the script.
ChangeFolder ==
    /\ gallery # None
    /\ \E f \in GalleryFolders \cup {"All"} :
          /\ f # gallery[1].selected_folder
          /\ IF f = "All" THEN TRUE ELSE gallery[1].rows[f] > 0
          /\ gallery' = Some(render([gallery[1] EXCEPT
                                !.selected_folder = f,
                                !.gallery_page = reset_page(@),
                                !.last = "folder", !.was = gallery[1].gallery_page]))
    /\ GalleryFrame

\* The user edits the search box: clear_inspector runs, then the script.
ChangeSearch ==
    /\ gallery # None
    /\ \E q \in SearchTexts :
          /\ q # gallery[1].search_q
          /\ gallery' = Some(render([gallery[1] EXCEPT !.search_q = q, !.last = "search"]))
    /\ GalleryFrame

GalleryNext == RowsAdded \/ ClickNext \/ ClickPrev \/ ChangeFolder \/ ChangeSearch

SpecGallery == GalleryInit /\ [][GalleryNext]_vars

----------------------------------------------------------------------------
(* The shadow table against the videos table *)

\* C30: with FTS available, once a store is open (on a new file, or on a file
\* that had no shadow table, an old one or a current one) and after any
\* upserts, the shadow table has exactly one row for each path of the videos
\* table and none for any other path, with that row's tags, summary,
\* description and transcription.
C30_ShadowTableMirrorsVideos ==
    /\ (table # None /\ table[1].opened /\ has_fts) =>
          /\ \A i \in 1..Len(table[1].rows) :
                Cardinality({k \in 1..Len(table[1].search_rows) :
                                table[1].search_rows[k] = table[1].rows[i].path}) = 1
          /\ \A k \in 1..Len(table[1].search_rows) :
                \E i \in 1..Len(table[1].rows) :
                    table[1].rows[i].path = table[1].search_rows[k]
    /\ has_fts =>
          /\ \A i \in 1..Len(db_committed.videos) :
                \E r \in BagToSet(db_committed.videos_search) :
                    /\ r.path = db_committed.videos[i].path
                    /\ r.tags = db_committed.videos[i].tags
                    /\ r.summary = db_committed.videos[i].summary
                    /\ r.description = db_committed.videos[i].description
                    /\ r.transcription = db_committed.videos[i].transcription
                    /\ CopiesIn(r, db_committed.videos_search) = 1
          /\ \A r \in BagToSet(db_committed.videos_search) :
                HasRow(db_committed.videos, r.path)

====
